---- MODULE Spec2Model ----
(***************************************************************************)
(* Model of the OOI port agent: the Router (router.py) and the PortAgent   *)
(* connectivity state machine (agents.py).                                 *)
(*                                                                         *)
(* The program runs on a single-threaded reactor, so every handler is one  *)
(* atomic step.  Handlers are written as functions from a state record to  *)
(* a state record, which lets a handler call another one (every agent      *)
(* handler that emits a packet calls Router.got_data) and lets an          *)
(* exception cut a handler short: field "raised" names the exception that  *)
(* left the handler, "none" when it returned normally.                     *)
(***************************************************************************)
EXTENDS Integers, Sequences, FiniteSets, TLC

VARIABLES
    agent_type,                  \* which PortAgent subclass was constructed
    num_connections,             \* PortAgent.num_connections (target count)
    connections,                 \* PortAgent.connections (live instrument set)
    clients,                     \* PortAgent.clients
    disconnect_notification_id,  \* PortAgent.disconnect_notification_id
    delayed_calls,               \* the DelayedCall objects made by reactor.callLater
    routes,                      \* Router.routes
    router_clients,              \* Router.clients (endpoint registry)
    statistics,                  \* Router.statistics
    dispatched,                  \* packets the last handler passed to Router.got_data
    written,                     \* writes the last handler made, per connection
    rendered,                    \* str(packet) evaluations of the last handler, per packet walked
    logged,                      \* counters the last handler printed to the diagnostic log
    config,                      \* PortAgent.config: the table of ports and the host
    registrations,               \* the service registrations got_port_cb has issued
    consul,                      \* get_consul_host: lookups awaiting their answer, retries pending
    heartbeat_task,              \* the LoopingCall of _heartbeat
    main,                        \* the statements of main() that have not run yet; empty while the reactor runs
    digi,                        \* the command connections _start_inst_command_connection has asked for
    stats_time,                  \* Router.stats_time: None, or 1 once _log_stats has run
    stats_publisher,             \* StatisticsPublisher.channel and the state of its connection to the queue
    published,                   \* messages the last handler handed to basic_publish
    orb,                         \* the Antelope agent's keep_going and orb_thread, its reader thread, and the reactor's queue of calls from threads
    dispatching,                 \* the calls of got_data in progress: the thread that runs each and the packets it has yet to route
    logfile,                     \* an ArchivingDailyLogFile: its name, archive_dir and lastDate
    ftp,                         \* the ZPLSC FTP client and the local raw directory
    camds,                       \* the CAMDS RetrieveFileFactory and its calls and requests
    raised,                      \* exception that left the last handler
    returned,                    \* value the last handler returned
    step                         \* the step of the program taken last

vars == <<agent_type, num_connections, connections, clients,
          disconnect_notification_id, delayed_calls, routes, router_clients,
          statistics, dispatched, written, rendered, logged, config,
          registrations, consul, heartbeat_task, main, digi, stats_time, stats_publisher, published, orb, dispatching, logfile, ftp, camds,
          raised, returned, step>>

-----------------------------------------------------------------------------
(* Bounds of the model *)

\* longest batch of packets one socket read hands to got_data
MaxBatch == 2

\* statistic-changing handlers between two statistics flushes
MaxStatEvents == 1

\* retrieved raw files without an echogram that a connecting driver is told of
MaxFiles == 1

\* counter-changing calls on a router of its own between two flushes
MaxCalls == 2

\* DIGI commands an RSN agent is sent after its start
MaxCommands == 1

\* ORB packets the reader thread reaps
MaxReaps == 2

\* passes of the ZPLSC agent over the instrument's listing
MaxPasses == 2

\* listings the CAMDS agent asks the camera for
MaxRounds == 4

\* seconds between two calls of _heartbeat.  The program takes the number
\* from common.py; the model takes a short interval.
HEARTBEAT_INTERVAL == 2

-----------------------------------------------------------------------------
(* Program constants *)

INSTRUMENT_DISCONNECT_FORGIVENESS_INTERVAL == 10

CONSUL_RETRY_INTERVAL == 10

\* size of the fixed packet header, added to the payload length in packet_size
HEADER_SIZE == 16

\* length of the history of retrieved images
MAX_NUM_FILES == 1000

\* disconnect_notification_id = None
None == 0

PacketType ==
    {"UNKNOWN", "FROM_INSTRUMENT", "FROM_DRIVER", "PA_COMMAND", "PA_STATUS",
     "PA_FAULT", "PA_CONFIG", "DIGI_CMD", "DIGI_RSP", "PA_HEARTBEAT",
     "PICKLED_FROM_INSTRUMENT"}

EndpointType ==
    {"INSTRUMENT", "INSTRUMENT_DATA", "DIGI", "CLIENT", "COMMAND", "LOGGER",
     "DATALOGGER", "RAW", "COMMAND_HANDLER"}

Format == {"RAW", "PACKET", "ASCII"}

\* the PortAgent subclasses modelled: TcpPortAgent, BotptPortAgent and
\* ZplscPortAgent
AgentTypes == {"tcp", "botpt", "zplsc"}

\* The connection objects of one agent.  A reconnect builds a new protocol
\* object for the same link; the model reuses the link's name for it.
\* (the ZPLSC agent fetches files over FTP and has no instrument protocol
\* that reports to instrument_connected)
InstrumentLinks(type) ==
    CASE type = "botpt" -> {"rx", "tx"}
      [] type = "tcp"   -> {"inst"}
      [] type = "rsn"   -> {"inst"}
      [] type = "zplsc" -> {}
      [] type = "antelope" -> {}

\* the connections accepted on the data port (one driver at a time here)
ClientLinks == {"driver"}

Loggers == {"ascii_logger", "data_logger"}

\* the connections accepted on the sniff port
SniffLinks == {"sniffer"}

Connections == {"inst", "rx", "tx"} \cup ClientLinks \cup SniffLinks \cup Loggers

\* endpoint type a connection registers under (second factory argument)
EndpointOf(c) ==
    CASE c = "inst"         -> "INSTRUMENT"
      [] c = "rx"           -> "INSTRUMENT_DATA"
      [] c = "tx"           -> "INSTRUMENT"
      [] c = "driver"       -> "CLIENT"
      [] c = "command"      -> "COMMAND"
      [] c = "sniffer"      -> "LOGGER"
      [] c = "ascii_logger" -> "LOGGER"
      [] c = "data_logger"  -> "DATALOGGER"

\* packet type of the data a connection produces (first factory argument)
PacketTypeOf(c) ==
    CASE c = "inst"    -> "FROM_INSTRUMENT"
      [] c = "rx"      -> "FROM_INSTRUMENT"
      [] c = "tx"      -> "UNKNOWN"
      [] c = "driver"  -> "FROM_DRIVER"
      [] c = "command" -> "PA_COMMAND"
      [] c = "sniffer" -> "UNKNOWN"

\* the servers _start_servers binds, by the name got_port_cb is given
Services == {"data", "command", "sniff"}

\* The configuration handed to the agent, as far as the agent reads it: a
\* configuration file that has a table of ports, and the configuration
\* config_from_options builds from the command line, which has no 'ports'.
ConfigFile == [has_ports |-> TRUE, ports |-> {}, host |-> FALSE]

ConfigOptions == [has_ports |-> FALSE, ports |-> {}, host |-> FALSE]

\* a LoopingCall that is not running: never started, or stopped
NotStarted == [running |-> FALSE, call |-> "none", time |-> 0, todo |-> 0]

\* payload of the i-th packet of a read: two different lengths in turn
PayloadOf(i) == IF i % 2 = 1 THEN "x" ELSE "yz"

\* sinks whose write is file I/O and can raise synchronously
CanRaise == Loggers

-----------------------------------------------------------------------------
(* Packet *)

Packet_create(payload, packet_type) ==
    << [header  |-> [packet_type |-> packet_type,
                     packet_size |-> HEADER_SIZE + Len(payload)],
        payload |-> payload] >>

\* format_map of Router.got_data: what is written for each output format
Render(packet, data_format) ==
    CASE data_format = "RAW"    -> [fmt |-> "RAW", bytes |-> packet.payload]
      [] data_format = "PACKET" -> [fmt |-> "PACKET", header |-> packet.header,
                                    bytes |-> packet.payload]
      [] data_format = "ASCII"  -> [fmt |-> "ASCII",
                                    line |-> <<packet.header.packet_type, packet.payload>>,
                                    eol |-> "NEWLINE"]

-----------------------------------------------------------------------------
(* The state record handlers work on *)

State ==
    [agent_type |-> agent_type, num_connections |-> num_connections,
     connections |-> connections, clients |-> clients,
     disconnect_notification_id |-> disconnect_notification_id,
     delayed_calls |-> delayed_calls, routes |-> routes,
     router_clients |-> router_clients, statistics |-> statistics,
     dispatched |-> dispatched, written |-> written, rendered |-> rendered,
     logged |-> logged, config |-> config,
     registrations |-> registrations,
     consul |-> consul,
     heartbeat_task |-> heartbeat_task,
     main |-> main,
     digi |-> digi,
     stats_time |-> stats_time,
     stats_publisher |-> stats_publisher,
     published |-> published,
     orb |-> orb,
     dispatching |-> dispatching,
     logfile |-> logfile,
     ftp |-> ftp,
     camds |-> camds,
     raised |-> raised, returned |-> returned, step |-> step]

Is(s) ==
    /\ agent_type = s.agent_type
    /\ num_connections = s.num_connections
    /\ connections = s.connections
    /\ clients = s.clients
    /\ disconnect_notification_id = s.disconnect_notification_id
    /\ delayed_calls = s.delayed_calls
    /\ routes = s.routes
    /\ router_clients = s.router_clients
    /\ statistics = s.statistics
    /\ dispatched = s.dispatched
    /\ written = s.written
    /\ rendered = s.rendered
    /\ logged = s.logged
    /\ config = s.config
    /\ registrations = s.registrations
    /\ consul = s.consul
    /\ heartbeat_task = s.heartbeat_task
    /\ main = s.main
    /\ digi = s.digi
    /\ stats_time = s.stats_time
    /\ stats_publisher = s.stats_publisher
    /\ published = s.published
    /\ orb = s.orb
    /\ dispatching = s.dispatching
    /\ logfile = s.logfile
    /\ ftp = s.ftp
    /\ camds = s.camds
    /\ raised = s.raised
    /\ returned = s.returned
    /\ step = s.step

Becomes(s) ==
    /\ agent_type' = s.agent_type
    /\ num_connections' = s.num_connections
    /\ connections' = s.connections
    /\ clients' = s.clients
    /\ disconnect_notification_id' = s.disconnect_notification_id
    /\ delayed_calls' = s.delayed_calls
    /\ routes' = s.routes
    /\ router_clients' = s.router_clients
    /\ statistics' = s.statistics
    /\ dispatched' = s.dispatched
    /\ written' = s.written
    /\ rendered' = s.rendered
    /\ logged' = s.logged
    /\ config' = s.config
    /\ registrations' = s.registrations
    /\ consul' = s.consul
    /\ heartbeat_task' = s.heartbeat_task
    /\ main' = s.main
    /\ digi' = s.digi
    /\ stats_time' = s.stats_time
    /\ stats_publisher' = s.stats_publisher
    /\ published' = s.published
    /\ orb' = s.orb
    /\ dispatching' = s.dispatching
    /\ logfile' = s.logfile
    /\ ftp' = s.ftp
    /\ camds' = s.camds
    /\ raised' = s.raised
    /\ returned' = s.returned
    /\ step' = s.step

NoWrites == [c \in Connections |-> <<>>]

\* a step starts with nothing dispatched, written, rendered, logged,
\* published, raised or returned
Enter(name) ==
    [State EXCEPT !.dispatched = <<>>, !.written = NoWrites, !.rendered = <<>>,
                  !.logged = <<>>, !.published = <<>>, !.raised = "none",
                  !.returned = <<>>, !.step = name]

-----------------------------------------------------------------------------
(* Router *)

NoCounts ==
    [ADD_ROUTE |-> 0, ADD_CLIENT |-> 0, DEL_CLIENT |-> 0, PACKET_IN |-> 0,
     PACKET_OUT |-> 0, BYTES_IN |-> 0, BYTES_OUT |-> 0]

\* defaultdict(Counter): a counter that was never incremented reads 0
NoStatistics == [e \in EndpointType |-> NoCounts]

Router_init ==
    [routes         |-> [t \in PacketType |-> {}],
     router_clients |-> [e \in EndpointType |-> {}],
     statistics     |-> NoStatistics]

\* add_route that keeps a route for ALL to itself instead of expanding it
add_route_no_wildcard(s, packet_type, endpoint_type, data_format) ==
    LET counted == [s EXCEPT
                      !.statistics[endpoint_type].ADD_ROUTE = @ + 1]
    IN  IF packet_type = "ALL"
        THEN counted
        ELSE [counted EXCEPT
                !.routes[packet_type] = @ \cup {<<endpoint_type, data_format>>}]

add_route(s, packet_type, endpoint_type, data_format) ==
    LET counted == [s EXCEPT
                      !.statistics[endpoint_type].ADD_ROUTE = @ + 1]
    IN  IF packet_type = "ALL"
        THEN [counted EXCEPT
                !.routes = [t \in PacketType |->
                               s.routes[t] \cup {<<endpoint_type, data_format>>}]]
        ELSE [counted EXCEPT
                !.routes[packet_type] = @ \cup {<<endpoint_type, data_format>>}]

\* register that also adds a RAW route of every packet type to the endpoint
\* type of the newcomer
register_subscribes(s, endpoint_type, source) ==
    [s EXCEPT !.statistics[endpoint_type].ADD_CLIENT = @ + 1,
              !.router_clients[endpoint_type] = @ \cup {source},
              !.routes = [t \in PacketType |-> @[t] \cup {<<endpoint_type, "RAW">>}]]

register(s, endpoint_type, source) ==
    [s EXCEPT !.statistics[endpoint_type].ADD_CLIENT = @ + 1,
              !.router_clients[endpoint_type] = @ \cup {source}]

deregister(s, endpoint_type, source) ==
    LET counted == [s EXCEPT !.statistics[endpoint_type].DEL_CLIENT = @ + 1]
    IN  IF source \in s.router_clients[endpoint_type]
        THEN [counted EXCEPT !.router_clients[endpoint_type] = @ \ {source}]
        ELSE [counted EXCEPT !.raised = "KeyError"]

\* A set of route entries as a sequence.  A connection is registered under
\* one endpoint type and the default table has one format per packet and
\* endpoint type, so the order in which got_data walks its sets shows only
\* in where an exception cuts the walk; that is the fault's choice below.
RECURSIVE InSomeOrder(_)
InSomeOrder(set) ==
    IF set = {} THEN <<>>
    ELSE LET r == CHOOSE x \in set : TRUE
         IN  <<r>> \o InSomeOrder(set \ {r})

RECURSIVE RenderAll(_, _)
RenderAll(packet, entries) ==
    IF entries = <<>> THEN <<>>
    ELSE <<Render(packet, Head(entries)[2])>> \o RenderAll(packet, Tail(entries))

\* A fault is which sink raises on write, and how far the walk over the
\* route entries (before) and over the failing entry's clients (ahead) had
\* come when it was reached.
NoFault == [bad |-> "none", before |-> {}, ahead |-> {}]

\* got_data that hands a packet without a route to every route of the table
RoutesOf_any(s, packet) ==
    IF /\ packet.header.packet_type \in DOMAIN s.routes
       /\ s.routes[packet.header.packet_type] # {}
    THEN s.routes[packet.header.packet_type]
    ELSE UNION {s.routes[t] : t \in DOMAIN s.routes}

\* self.routes.get(packet.header.packet_type, [])
RoutesOf(s, packet) ==
    IF packet.header.packet_type \in DOMAIN s.routes
    THEN s.routes[packet.header.packet_type]
    ELSE {}

\* the route entries of a packet that lead to connection c
EntriesTo(s, packet, c) ==
    {r \in RoutesOf(s, packet) : c \in s.router_clients[r[1]]}

\* got_data that formats the packet in front of every write in ASCII format
AsciiRenderings_every_write(reach) ==
    LET Sum[rs \in SUBSET DOMAIN reach] ==
            IF rs = {} THEN 0
            ELSE LET r == CHOOSE x \in rs : TRUE
                 IN  (IF r[2] = "ASCII" THEN Cardinality(reach[r]) ELSE 0)
                       + Sum[rs \ {r}]
    IN  Sum[DOMAIN reach]

\* How often the walk of one packet evaluates str(packet): format_map[ASCII]
\* starts as None and is filled in front of the first write in ASCII format.
AsciiRenderings(reach) ==
    IF \E r \in DOMAIN reach : r[2] = "ASCII" /\ reach[r] # {} THEN 1 ELSE 0

\* Counters and writes of one packet.  reach maps each route entry that
\* the walk came to onto the clients it came to, ok onto those of them
\* whose write returned.
RoutePacket(s, packet, reach, ok) ==
    LET size == packet.header.packet_size
        entries == DOMAIN reach
        Ins(e) == Cardinality({r \in entries : r[1] = e})
        SumOuts[rs \in SUBSET entries] ==
            IF rs = {} THEN 0
            ELSE LET r == CHOOSE x \in rs : TRUE
                 IN  Cardinality(reach[r]) + SumOuts[rs \ {r}]
        Outs(e) == SumOuts[{r \in entries : r[1] = e}]
    IN  [s EXCEPT
          !.statistics = [e \in EndpointType |->
              [@[e] EXCEPT !.PACKET_IN = @ + Ins(e),
                           !.BYTES_IN = @ + Ins(e) * size,
                           !.PACKET_OUT = @ + Outs(e),
                           !.BYTES_OUT = @ + Outs(e) * size]],
          !.written = [c \in Connections |->
              @[c] \o RenderAll(packet,
                        InSomeOrder({r \in entries : c \in ok[r]}))],
          !.rendered = Append(@, AsciiRenderings(reach))]

\* the body of the loop over packets, for a packet no write of which raises
RouteOne(s, packet) ==
    LET all == [r \in RoutesOf(s, packet) |-> s.router_clients[r[1]]]
    IN  RoutePacket(s, packet, all, all)

\* the body of the loop over packets, left by the exception of fault.bad
RouteAborted(s, packet, fault) ==
    LET mine == EntriesTo(s, packet, fault.bad)
        failing == CHOOSE r \in mine : TRUE
        entries == (fault.before \ mine) \cup {failing}
        reach == [r \in entries |->
                    IF r = failing THEN fault.ahead \cup {fault.bad}
                    ELSE s.router_clients[r[1]]]
        ok == [r \in entries |-> reach[r] \ {fault.bad}]
    IN  [RoutePacket(s, packet, reach, ok) EXCEPT !.raised = "IOError"]

RECURSIVE RouteAll(_, _, _)
RouteAll(s, packets, fault) ==
    IF packets = <<>> THEN s
    ELSE IF fault.bad # "none" /\ EntriesTo(s, Head(packets), fault.bad) # {}
         THEN RouteAborted(s, Head(packets), fault)
         ELSE RouteAll(RouteOne(s, Head(packets)), Tail(packets), fault)

\* got_data that walks its batch from the last packet to the first
got_data_last_first(s, packets, fault) ==
    RouteAll([s EXCEPT !.dispatched = @ \o packets],
             [i \in 1..Len(packets) |-> packets[Len(packets) + 1 - i]], fault)

got_data(s, packets, fault) ==
    RouteAll([s EXCEPT !.dispatched = @ \o packets], packets, fault)

\* the faults one call of got_data can meet
Faults(s, packets) ==
    {NoFault} \cup
    UNION {
      LET hits == {i \in 1..Len(packets) : EntriesTo(s, packets[i], b) # {}}
      IN  IF hits = {} THEN {}
          ELSE LET first == CHOOSE i \in hits : \A j \in hits : i <= j
                   mine == EntriesTo(s, packets[first], b)
                   failing == CHOOSE r \in mine : TRUE
               IN  {[bad |-> b, before |-> B, ahead |-> A] :
                      B \in SUBSET (RoutesOf(s, packets[first]) \ mine),
                      A \in SUBSET (s.router_clients[failing[1]] \ {b})}
      : b \in CanRaise}

\* The lines _log_stats prints: for every endpoint type that has a Counter,
\* its registrations, packets and bytes (the rates are these over the fixed
\* interval).  A Counter exists once one of its counts was incremented.
LogLines(stats) ==
    [e \in {x \in EndpointType : stats[x] # NoCounts} |->
        [ADD_CLIENT |-> stats[e].ADD_CLIENT, DEL_CLIENT |-> stats[e].DEL_CLIENT,
         PACKET_IN |-> stats[e].PACKET_IN, PACKET_OUT |-> stats[e].PACKET_OUT,
         BYTES_IN |-> stats[e].BYTES_IN, BYTES_OUT |-> stats[e].BYTES_OUT]]

\* _log_stats that prints the counters and leaves them as they are
_log_stats_keeps(s) == [s EXCEPT !.logged = LogLines(s.statistics)]

\* publish that does not look at its channel
publish_unchecked(s, message) == [s EXCEPT !.published = Append(@, message)]

\* StatisticsPublisher.publish: with a channel the message is handed to
\* basic_publish, whose failure stays in the Deferred of publish; without
\* one it is dropped with a warning
publish(s, message) ==
    IF s.stats_publisher.channel # None
    THEN [s EXCEPT !.published = Append(@, message)]
    ELSE s

\* The LoopingCall of _log_stats is started in Router.__init__ and calls it
\* at once, with no stats_time yet and nothing counted.  Every later call
\* publishes the counters of CLIENT if there are any, prints the counters
\* and clears them.
_log_stats(s) ==
    LET client_stats == s.statistics["CLIENT"]
        stats == [bytes_in  |-> client_stats.BYTES_IN,
                  bytes_out |-> client_stats.BYTES_OUT,
                  num_clients |-> [k \in EndpointType |->
                                      Cardinality(s.router_clients[k])],
                  adds |-> client_stats.ADD_CLIENT]
        timed == [s EXCEPT !.stats_time = 1]
        told == IF s.stats_time # None /\ client_stats # NoCounts
                THEN publish(timed, stats) ELSE timed
    IN  [told EXCEPT !.logged = LogLines(s.statistics),
                     !.statistics = NoStatistics]

\* The events of ReconnectingPikaFactory and of the protocol it builds: the
\* connection is made (buildProtocol), the protocol is ready and
\* get_channel has declared and bound the queue, the connection is lost,
\* or an attempt to connect failed.  The factory tries again by itself.
ReconnectingPikaFactory(s, event) ==
    CASE event = "buildProtocol" ->
            [s EXCEPT !.stats_publisher.link = "connected"]
      [] event = "get_channel" ->
            [s EXCEPT !.stats_publisher.channel = 1]
      [] event \in {"clientConnectionLost", "clientConnectionFailed"} ->
            [s EXCEPT !.stats_publisher = [channel |-> None,
                                           link |-> "connecting"]]

-----------------------------------------------------------------------------
(* The reactor's delayed calls *)

\* reactor.callLater(delay, f): a new DelayedCall, pending, due in delay seconds
callLater(calls, delay) == Append(calls, [state |-> "pending", time |-> delay])

\* DelayedCall.cancel(): takes a pending call off the reactor's queue and
\* raises on a call that was cancelled or has run
cancel(s, id) ==
    CASE s.delayed_calls[id].state = "pending" ->
            [s EXCEPT !.delayed_calls[id] = [state |-> "cancelled", time |-> 0]]
      [] s.delayed_calls[id].state = "cancelled" ->
            [s EXCEPT !.raised = "AlreadyCancelled"]
      [] s.delayed_calls[id].state = "called" ->
            [s EXCEPT !.raised = "AlreadyCalled"]

Pending(calls) == {i \in 1..Len(calls) : calls[i].state = "pending"}

-----------------------------------------------------------------------------
(* PortAgent *)

_register_loggers(s) ==
    register(register(s, "DATALOGGER", "data_logger"), "LOGGER", "ascii_logger")

_create_routes(s) ==
    LET r01 == add_route(s,   "ALL", "LOGGER", "ASCII")
        r02 == add_route(r01, "ALL", "DATALOGGER", "PACKET")
        r03 == add_route(r02, "FROM_DRIVER", "INSTRUMENT", "RAW")
        r04 == add_route(r03, "FROM_INSTRUMENT", "CLIENT", "PACKET")
        r05 == add_route(r04, "FROM_INSTRUMENT", "RAW", "RAW")
        r06 == add_route(r05, "PICKLED_FROM_INSTRUMENT", "CLIENT", "PACKET")
        r07 == add_route(r06, "PA_COMMAND", "COMMAND_HANDLER", "PACKET")
        r08 == add_route(r07, "PA_CONFIG", "CLIENT", "PACKET")
        r09 == add_route(r08, "PA_CONFIG", "COMMAND", "RAW")
        r10 == add_route(r09, "PA_FAULT", "CLIENT", "PACKET")
        r11 == add_route(r10, "PA_HEARTBEAT", "CLIENT", "PACKET")
        r12 == add_route(r11, "PA_STATUS", "CLIENT", "PACKET")
        r13 == add_route(r12, "PA_STATUS", "COMMAND", "RAW")
        r14 == add_route(r13, "DIGI_CMD", "DIGI", "RAW")
        r15 == add_route(r14, "DIGI_RSP", "CLIENT", "PACKET")
    IN  add_route(r15, "DIGI_RSP", "COMMAND", "RAW")

\* the first statements of PortAgent.__init__: the fields of a new agent
\* and its new router
PortAgent_new(type) ==
    [agent_type |-> type, num_connections |-> 0,
     connections |-> {}, clients |-> {},
     disconnect_notification_id |-> None, delayed_calls |-> <<>>,
     routes |-> Router_init.routes,
     router_clients |-> Router_init.router_clients,
     statistics |-> Router_init.statistics,
     dispatched |-> <<>>, written |-> NoWrites,
     rendered |-> <<>>, logged |-> <<>>,
     config |-> ConfigFile,
     registrations |-> [service \in Services |->
                           [issued |-> 0, answer |-> "none"]],
     consul |-> [lookups |-> 0, retries |-> <<>>],
     heartbeat_task |-> NotStarted,
     main |-> <<>>,
     digi |-> <<>>,
     stats_time |-> 1,
     stats_publisher |-> [channel |-> None, link |-> "connecting"],
     published |-> <<>>,
     orb |-> [keep_going |-> FALSE, orb_thread |-> None, pc |-> "none", reaped |-> 0, injected |-> 0, calls |-> <<>>],
     dispatching |-> <<>>,
     logfile |-> [name |-> "test", directory |-> "logdir", archive_dir |-> "archivedir",
                  lastDate |-> <<2016, 1, 1>>, today |-> <<2016, 1, 2>>,
                  tupledate |-> [type |-> "tuple", value |-> <<2016, 1, 1>>],
                  exists |-> {"logdir", "logdir/test"},
                  writable |-> {"logdir", "logdir/test"},
                  creatable |-> TRUE, closed |-> 0, raised |-> "none"],
     ftp |-> [retrieved_files |-> {}, files |-> <<>>, index |-> 0, pc |-> "none", local |-> {}, dirs |-> {}, downloads |-> <<>>, before |-> {}, received |-> None, passes |-> 0],
     camds |-> [pending_file_queue |-> <<>>, retrieved_file_queue |-> <<>>, calls |-> <<>>, file_obj |-> <<>>, rounds |-> 0],
     raised |-> "none", returned |-> <<>>, step |-> "__init__"]

\* client_connected that greets the newcomer with the connection state
client_connected_greets(s, connection) ==
    LET packets == IF Cardinality(s.connections) = s.num_connections
                   THEN Packet_create("CONNECTED", "PA_STATUS")
                   ELSE Packet_create("DISCONNECTED", "PA_STATUS")
    IN  got_data([s EXCEPT !.clients = @ \cup {connection}], packets, NoFault)

client_connected(s, connection) ==
    [s EXCEPT !.clients = @ \cup {connection}]

\* ZplscPortAgent.notify: one FROM_INSTRUMENT packet that names the file
notify(s, fault) ==
    got_data(s, Packet_create("downloaded file:raw", "FROM_INSTRUMENT"), fault)

\* ZplscPortAgent._submit_unprocessed_files: the walk over retrieved_files.
\* todo is the number of files it finds without an echogram and notifies
\* of; missing says that it then comes to a file whose directory does not
\* exist, where the log.msg call has one argument too few for its format
\* string.  Files that have an echogram or an unexpected name are skipped.
RECURSIVE _submit_unprocessed_files(_, _, _, _)
_submit_unprocessed_files(s, todo, missing, fault) ==
    IF todo = 0
    THEN IF missing THEN [s EXCEPT !.raised = "TypeError"] ELSE s
    ELSE LET notified == notify(s, fault)
         IN  IF notified.raised # "none" THEN notified
             ELSE _submit_unprocessed_files(notified, todo - 1, missing, fault)

\* ZplscPortAgent.client_connected
ZplscPortAgent_client_connected(s, connection, todo, missing, fault) ==
    _submit_unprocessed_files([s EXCEPT !.clients = @ \cup {connection}],
                              todo, missing, fault)

client_disconnected(s, connection) ==
    IF connection \in s.clients
    THEN [s EXCEPT !.clients = @ \ {connection}]
    ELSE [s EXCEPT !.raised = "KeyError"]

\* instrument_connected without the cancellation of the pending notification
instrument_connected_keeps_timer(s, connection, fault) ==
    LET added == [s EXCEPT !.connections = @ \cup {connection}]
    IN  IF Cardinality(added.connections) = added.num_connections
        THEN got_data(added, Packet_create("CONNECTED", "PA_STATUS"), fault)
        ELSE added

instrument_connected(s, connection, fault) ==
    LET added == [s EXCEPT !.connections = @ \cup {connection}]
    IN  IF Cardinality(added.connections) = added.num_connections
        THEN LET cancelled ==
                    IF added.disconnect_notification_id # None
                    THEN cancel(added, added.disconnect_notification_id)
                    ELSE added
             IN  IF cancelled.raised # "none" THEN cancelled
                 ELSE got_data(cancelled,
                               Packet_create("CONNECTED", "PA_STATUS"), fault)
        ELSE added

\* instrument_disconnected that starts a notification on every loss
instrument_disconnected_rearms(s, connection) ==
    IF connection \notin s.connections
    THEN [s EXCEPT !.raised = "KeyError"]
    ELSE [s EXCEPT
            !.connections = @ \ {connection},
            !.delayed_calls =
                callLater(@, INSTRUMENT_DISCONNECT_FORGIVENESS_INTERVAL),
            !.disconnect_notification_id = Len(s.delayed_calls) + 1]

instrument_disconnected(s, connection) ==
    IF connection \notin s.connections
    THEN [s EXCEPT !.raised = "KeyError"]
    ELSE LET removed == [s EXCEPT !.connections = @ \ {connection}]
         IN  IF removed.disconnect_notification_id = None
             THEN [removed EXCEPT
                     !.delayed_calls =
                         callLater(@, INSTRUMENT_DISCONNECT_FORGIVENESS_INTERVAL),
                     !.disconnect_notification_id = Len(removed.delayed_calls) + 1]
             ELSE removed

notify_disconnected(s, fault) ==
    got_data(s, Packet_create("DISCONNECTED", "PA_STATUS"), fault)

\* get_state that keeps answering CONNECTED while a notification is pending
get_state_debounced(s) ==
    IF \/ Cardinality(s.connections) = s.num_connections
       \/ Pending(s.delayed_calls) # {}
    THEN [s EXCEPT !.returned = Packet_create("CONNECTED", "PA_STATUS")]
    ELSE [s EXCEPT !.returned = Packet_create("DISCONNECTED", "PA_STATUS")]

\* get_state that routes its answer itself
get_state_routed(s) ==
    LET packets == IF Cardinality(s.connections) = s.num_connections
                   THEN Packet_create("CONNECTED", "PA_STATUS")
                   ELSE Packet_create("DISCONNECTED", "PA_STATUS")
    IN  got_data([s EXCEPT !.returned = packets], packets, NoFault)

get_state(s) ==
    IF Cardinality(s.connections) = s.num_connections
    THEN [s EXCEPT !.returned = Packet_create("CONNECTED", "PA_STATUS")]
    ELSE [s EXCEPT !.returned = Packet_create("DISCONNECTED", "PA_STATUS")]

\* json.dumps(self.config): the text of the configuration
get_config(s) ==
    [s EXCEPT !.returned = Packet_create("CONFIG", "PA_CONFIG")]

\* ooi_port_agent.__version__
get_version(s) ==
    [s EXCEPT !.returned = Packet_create("VERSION", "PA_CONFIG")]

\* got_port_cb up to its yield: the port is recorded, then the registration
\* is issued.  Without a table of ports the assignment raises KeyError,
\* which the Deferred of listen keeps: nothing is recorded or issued.
got_port_cb(s, service) ==
    IF ~s.config.has_ports
    THEN [s EXCEPT !.registrations[service].answer = "KeyError"]
    ELSE [s EXCEPT !.config.ports = @ \cup {service},
                   !.registrations[service] =
                       [issued |-> @.issued + 1, answer |-> "in_flight"]]

\* listen binds at once (port 0) and calls got_port_cb before it returns:
\* data, command, sniff in turn.  A bind that fails leaves its error in
\* the Deferred, and got_port_cb is not called.
_start_servers(s, bound) ==
    LET listen(x, service) ==
            IF service \in bound THEN got_port_cb(x, service)
            ELSE [x EXCEPT !.registrations[service].answer = "CannotListenError"]
    IN  listen(listen(listen(s, "data"), "command"), "sniff")

get_consul_host(s) == [s EXCEPT !.consul.lookups = @ + 1]

\* get_consul_host that gives up when the lookup is refused
get_consul_host_gives_up(s, answer) ==
    LET answered == [s EXCEPT !.consul.lookups = @ - 1]
    IN  CASE answer = "host" -> [answered EXCEPT !.config.host = TRUE]
          [] answer = "no_member" ->
                [answered EXCEPT
                    !.consul.retries = Append(@, CONSUL_RETRY_INTERVAL)]
          [] answer = "refused" -> answered
          [] OTHER -> [answered EXCEPT !.raised = "ValueError"]

\* get_consul_host resumed by the answer to its lookup: the host is kept;
\* after a refused connection and after an answer without the member
\* address (KeyError) the lookup is scheduled again; any other failure, as
\* a body that is no JSON text (ValueError), is not handled
get_consul_host_resumed(s, answer) ==
    LET answered == [s EXCEPT !.consul.lookups = @ - 1]
    IN  CASE answer = "host" -> [answered EXCEPT !.config.host = TRUE]
          [] answer \in {"refused", "no_member"} ->
                [answered EXCEPT
                    !.consul.retries = Append(@, CONSUL_RETRY_INTERVAL)]
          [] OTHER -> [answered EXCEPT !.raised = "ValueError"]

\* _heartbeat up to its first yield: the heartbeat packet is routed, then
\* the loop over config['ports'] sends the first refresh; todo is the
\* number of services whose refresh is not answered yet
_heartbeat(s, fault) ==
    LET routed == got_data(s, Packet_create("HB", "PA_HEARTBEAT"), fault)
    IN  IF routed.raised # "none" THEN routed
        ELSE IF ~routed.config.has_ports
        THEN [routed EXCEPT !.raised = "KeyError"]
        ELSE [routed EXCEPT
                !.heartbeat_task.todo = Cardinality(routed.config.ports)]

\* _heartbeat resumed by the answer to the refresh it waits for: a response
\* (of any status) lets the loop go on, a failure is raised at the yield
_heartbeat_resumed(s, answer) ==
    IF answer = "response"
    THEN [s EXCEPT !.heartbeat_task.todo = @ - 1]
    ELSE [s EXCEPT !.raised = "ConnectionRefusedError"]

\* The LoopingCall after _heartbeat returned or was resumed: a failure stops
\* the loop for good, an unfinished Deferred makes it wait, and after a call
\* that took `late` seconds (counted within the interval) the next call is
\* due at the next multiple of the interval.
LoopingCall_reschedule(s, late) ==
    IF s.raised # "none" THEN [s EXCEPT !.heartbeat_task = NotStarted]
    ELSE IF s.heartbeat_task.todo > 0
    THEN [s EXCEPT !.heartbeat_task =
             [running |-> TRUE, call |-> "waiting", time |-> late,
              todo |-> s.heartbeat_task.todo]]
    ELSE [s EXCEPT !.heartbeat_task =
             [running |-> TRUE, call |-> "scheduled",
              time |-> HEARTBEAT_INTERVAL - late, todo |-> 0]]

\* got_port_cb resumed by the answer to its registration: a response (one
\* that is not OK is logged) ends it, a failure is raised at the yield and
\* stays in the Deferred of listen
got_port_cb_resumed(s, service, answer) ==
    [s EXCEPT !.registrations[service].answer = answer,
              !.raised = IF answer = "refused" THEN "ConnectionRefusedError"
                         ELSE "none"]

\* _handle_digi_command up to its yield: the command line is built and a
\* connection to the command port of the DIGI is asked for
_handle_digi_command(s, command) ==
    [s EXCEPT !.digi = Append(@, [command |-> command,
                                  protocol |-> "connecting",
                                  written |-> <<>>])]

\* _handle_digi_command that writes without a connection
_handle_digi_command_writes_blind(s, i, connected, fault) ==
    LET packets == Packet_create(s.digi[i].command, "DIGI_CMD")
        wrote == [s EXCEPT !.digi[i].protocol =
                               IF connected THEN "connected" ELSE "failed",
                           !.digi[i].written = Append(@, s.digi[i].command),
                           !.returned = packets]
    IN  got_data(wrote, packets, fault)

\* _handle_digi_command resumed by the outcome of its i-th connection: with
\* a protocol it writes the command line and returns the DIGI_CMD packet,
\* which its caller (_set_binary, or the command protocol) hands to
\* got_data; a connection that failed is raised at the yield
_handle_digi_command_resumed(s, i, connected, fault) ==
    IF ~connected
    THEN [s EXCEPT !.digi[i].protocol = "failed", !.raised = "ConnectError"]
    ELSE LET packets == Packet_create(s.digi[i].command, "DIGI_CMD")
             wrote == [s EXCEPT !.digi[i].protocol = "connected",
                                !.digi[i].written = Append(@, s.digi[i].command),
                                !.returned = packets]
         IN  got_data(wrote, packets, fault)

\* PortAgent.__init__ before its LoopingCall is started (AntelopePortAgent
\* overrides _register_loggers and registers no log file)
PortAgent_prepared(type, configuration, bound) ==
    LET new == [PortAgent_new(type) EXCEPT !.config = configuration]
        logging == IF type = "antelope" THEN new ELSE _register_loggers(new)
    IN  get_consul_host(_start_servers(_create_routes(logging), bound))

\* PortAgent.__init__, whose LoopingCall calls _heartbeat at once, followed
\* by the subclass's __init__, which sets the target count: 1 in
\* TcpPortAgent and RsnPortAgent, 2 in BotptPortAgent; ZplscPortAgent leaves
\* it at the 0 of PortAgent.__init__.  RsnPortAgent also asks the DIGI for
\* binary timestamps (_set_binary).  The constructor itself raises nothing: what
\* _heartbeat raises goes to its Deferred.
PortAgent_init(type, configuration, bound, fault) ==
    LET prepared == PortAgent_prepared(type, configuration, bound)
        built == [LoopingCall_reschedule(_heartbeat(prepared, fault), 0) EXCEPT
                     !.num_connections = CASE type = "botpt" -> 2
                                           [] type = "tcp"   -> 1
                                           [] type = "rsn"   -> 1
                                           [] type = "zplsc" -> 0
                                           [] type = "antelope" -> 0,
                     !.raised = "none"]
    IN  IF type = "rsn" THEN _handle_digi_command(built, "BINARY_TIMESTAMP")
        ELSE built

-----------------------------------------------------------------------------
(* AntelopePortAgent and its OrbThread *)

\* create_packets: a FROM_INSTRUMENT packet for each channel of the ORB
\* packet, here the n-th packet reaped
create_packets(n, channels) ==
    [i \in 1..channels |-> Packet_create(PayloadOf(n), "FROM_INSTRUMENT")[1]]

\* callFromThread that runs got_data in the thread that calls it
callFromThread_direct(s, thread, n, packets) ==
    [s EXCEPT !.orb.injected = n,
              !.dispatching = Append(@, [thread |-> thread, packets |-> packets])]

\* reactor.callFromThread(got_data, packets): the call is put on the
\* reactor's queue of calls from threads, behind the calls queued before
callFromThread(s, thread, n, packets) ==
    [s EXCEPT !.orb.calls = Append(@, [n |-> n, packets |-> packets])]

\* OrbThread.run, one statement of its loop: the test of keep_going, or
\* the reap with what follows it.  A reap that times out starts the loop
\* again; a packet is turned into packets and handed to the reactor.
OrbThread_run(s, outcome, channels) ==
    CASE s.orb.pc = "while" ->
            [s EXCEPT !.orb.pc = IF s.orb.keep_going THEN "reap" ELSE "done"]
      [] s.orb.pc = "reap" /\ outcome = "OrbIncompleteException" ->
            [s EXCEPT !.orb.pc = "while"]
      [] s.orb.pc = "reap" /\ outcome = "packet" ->
            callFromThread([s EXCEPT !.orb.pc = "while", !.orb.reaped = @ + 1],
                           "OrbThread", s.orb.reaped + 1,
                           create_packets(s.orb.reaped + 1, channels))

_orb_start(s) ==
    IF s.orb.orb_thread = None
    THEN [s EXCEPT !.orb.keep_going = TRUE, !.orb.orb_thread = 1,
                   !.orb.pc = "while"]
    ELSE s

\* threading.Thread has no method destroy
_orb_stop(s) ==
    LET stopped == [s EXCEPT !.orb.keep_going = FALSE]
    IN  IF s.orb.orb_thread # None
        THEN [stopped EXCEPT !.raised = "AttributeError"]
        ELSE stopped

-----------------------------------------------------------------------------
(* ArchivingDailyLogFile *)

\* '%d' % n and, with width 2, '%02d' % n, for n >= 0: the decimal digits
\* of n, with zeros in front up to the width
Format_d(n, width) ==
    LET digit == <<"0", "1", "2", "3", "4", "5", "6", "7", "8", "9">>
        decimal[k \in Nat] ==
            IF k < 10 THEN digit[k + 1]
            ELSE decimal[k \div 10] \o digit[(k % 10) + 1]
    IN  IF width = 2 /\ n < 10 THEN "0" \o decimal[n] ELSE decimal[n]

\* toDate that takes the day number for the day of the year's first month
toDate_no_calendar(unixtime) ==
    <<1970 + ((unixtime \div 86400) \div 365), 1,
      (((unixtime \div 86400) % 365) % 31) + 1>>

\* time.gmtime(unixtime)[:3]: the (year, month, day) of the UTC date that
\* holds second unixtime of the epoch, unixtime >= 0
toDate(unixtime) ==
    LET leap(y) == y % 4 = 0 /\ (y % 100 # 0 \/ y % 400 = 0)
        yearLength(y) == IF leap(y) THEN 366 ELSE 365
        monthLength(y, m) ==
            CASE m = 2 -> IF leap(y) THEN 29 ELSE 28
              [] m \in {4, 6, 9, 11} -> 30
              [] OTHER -> 31
        year[y \in Nat, d \in Nat] ==
            IF d < yearLength(y) THEN <<y, d>>
            ELSE year[y + 1, d - yearLength(y)]
        month[y \in Nat, m \in Nat, d \in Nat] ==
            IF d < monthLength(y, m) THEN <<y, m, d + 1>>
            ELSE month[y, m + 1, d - monthLength(y, m)]
        found == year[1970, unixtime \div 86400]
    IN  month[found[1], 1, found[2]]

\* suffix that does not pad
suffix_unpadded(tupledate) ==
    LET date == IF tupledate.type \in {"float", "int", "long"}
                THEN [type |-> "tuple", value |-> toDate(tupledate.value)]
                ELSE tupledate
    IN  IF date.type = "tuple" /\ Len(date.value) = 3
        THEN [returned |-> Format_d(date.value[1], 0) \o "_" \o Format_d(date.value[2], 0)
                               \o "_" \o Format_d(date.value[3], 0),
              raised |-> "none"]
        ELSE [returned |-> None, raised |-> "TypeError"]

\* suffix.  An argument is given with its Python type; a float is given by
\* its whole part.  A number is first turned into its date, and a tuple is
\* formatted with '%d_%02d_%02d' % tupledate, which raises TypeError unless
\* the tuple has three items; a list passes the isinstance test but is one
\* single argument to %, a TypeError as well
suffix(tupledate) ==
    LET date == IF tupledate.type \in {"float", "int", "long"}
                THEN [type |-> "tuple", value |-> toDate(tupledate.value)]
                ELSE tupledate
    IN  IF date.type = "tuple" /\ Len(date.value) = 3
        THEN [returned |-> Format_d(date.value[1], 0) \o "_" \o Format_d(date.value[2], 2)
                               \o "_" \o Format_d(date.value[3], 2),
              raised |-> "none"]
        ELSE [returned |-> None, raised |-> "TypeError"]

\* os.path.join puts one separator between components that are not empty
\* and do not end in one
os_path_join(a, b) == IF a = "" THEN b ELSE a \o "/" \o b

\* get_archive
get_archive(f) ==
    LET year == f.lastDate[1]
        month == f.lastDate[2]
    IN  <<f.name \o "." \o suffix([type |-> "tuple", value |-> f.lastDate]).returned,
          os_path_join(os_path_join(f.archive_dir, Format_d(year, 0)), Format_d(month, 2))>>

\* rotate.  os.access(p, os.W_OK) is p \in f.writable, os.path.exists(p) is
\* p \in f.exists; os.makedirs raises OSError where the directory may not
\* be created (f.creatable is false).  After the rename _openFile creates
\* the log file anew and takes lastDate from its modification time, today
rotate(f) ==
    LET path == os_path_join(f.directory, f.name)
        archive == get_archive(f)
        newdirectory == archive[2]
        newpath == os_path_join(newdirectory, archive[1])
        made == [f EXCEPT !.exists = @ \cup {newdirectory},
                          !.writable = IF newdirectory \in f.exists THEN @
                                       ELSE @ \cup {newdirectory}]
    IN  IF ~(f.directory \in f.writable /\ path \in f.writable)
        THEN [f EXCEPT !.raised = "none"]
        ELSE IF newdirectory \notin f.exists /\ ~f.creatable
        THEN [f EXCEPT !.raised = "OSError"]
        ELSE IF newdirectory \notin made.writable THEN [made EXCEPT !.raised = "none"]
        ELSE IF newpath \in made.exists THEN [made EXCEPT !.raised = "none"]
        ELSE [made EXCEPT !.closed = @ + 1,
                          !.exists = @ \cup {newpath},
                          !.writable = @ \cup {path},
                          !.lastDate = f.today,
                          !.raised = "none"]

-----------------------------------------------------------------------------
(* ZplscPortAgent's FTP client.  A file name is its stem and its          *)
(* extension; a local file is the directory it is in (the date groups of   *)
(* its name), its name without reference designator and '.part', whether  *)
(* it still has the '.part' extension, and its size.                       *)

\* FILE_NAME_MATCHER.match(file_name): the groups (year, month, day) of a
\* name '<prefix>-D<yyyymmdd>-T<hhmmss>.raw'; no groups, <<>>, stand for the
\* None it answers for any other name
FILE_NAME_MATCHER(file_name) ==
    IF file_name.ext # ".raw" THEN <<>>
    ELSE CASE file_name.stem = "OOI-D20150713-T155500" -> <<"2015", "07", "13">>
           [] file_name.stem = "OOI-D20150714-T074455" -> <<"2015", "07", "14">>
           [] OTHER -> <<>>

_should_skip(s, filename) ==
    \/ filename \in s.ftp.retrieved_files
    \/ filename.ext \in {".bot", ".idx"}

\* _file_retrieved that trusts the download
_file_retrieved_unverified(s, fileobject, filesize, fault) ==
    IF fileobject \in s.ftp.local
    THEN notify([s EXCEPT !.ftp.local = (@ \ {fileobject})
                                          \cup {[fileobject EXCEPT !.part = FALSE]},
                          !.ftp.retrieved_files = @ \cup {fileobject.name}],
                fault)
    ELSE s

\* _file_retrieved: fileobject is the '.part' file the FileWriter wrote,
\* filesize the size of the listing
_file_retrieved(s, fileobject, filesize, fault) ==
    IF fileobject \in s.ftp.local
    THEN IF filesize # fileobject.size
         THEN [s EXCEPT !.ftp.local = @ \ {fileobject}]
         ELSE notify([s EXCEPT !.ftp.local = (@ \ {fileobject})
                                               \cup {[fileobject EXCEPT !.part = FALSE]},
                               !.ftp.retrieved_files = @ \cup {fileobject.name}],
                     fault)
    ELSE s

\* _retrieve_files from line s.ftp.index of the listing up to its next
\* yield, the call of retrieveFile (pc "retrieveFile"), or to its end (pc
\* "callLater": _get_files has scheduled its next call).  made says
\* whether os.makedirs can create the directory; its OSError leaves
\* _retrieve_files and is logged by _get_files
_retrieve_files(s, made) ==
    LET files == s.ftp.files
        loop[i \in 1..(Len(files) + 1)] ==
            IF i > Len(files)
            THEN [s EXCEPT !.ftp.index = i, !.ftp.pc = "callLater"]
            ELSE LET file_name == files[i].filename
                     match == FILE_NAME_MATCHER(file_name)
                 IN  IF _should_skip(s, file_name) \/ match = <<>> THEN loop[i + 1]
                     ELSE IF match \notin s.ftp.dirs /\ ~made
                     THEN [s EXCEPT !.ftp.index = i, !.ftp.pc = "callLater",
                                    !.logged = Append(@, "OSError")]
                     ELSE [s EXCEPT !.ftp.index = i, !.ftp.pc = "retrieveFile",
                                    !.ftp.dirs = @ \cup {match},
                                    !.ftp.downloads = Append(@, file_name)]
    IN  loop[s.ftp.index]

\* _get_files: the listing, then _retrieve_files from its first line
_get_files(s, files, made) ==
    _retrieve_files([s EXCEPT !.ftp.files = files, !.ftp.index = 1,
                              !.ftp.downloads = <<>>,
                              !.ftp.before = s.ftp.retrieved_files,
                              !.ftp.passes = @ + 1], made)

\* The end of a transfer.  received is the size of the '.part' file when
\* the data connection closes, None where no data connection was made and
\* no file written.  FileWriter.connectionLost fires the Deferred that
\* calls _file_retrieved; then the Deferred of retrieveFile fires, with a
\* result or a failure that _retrieve_files logs, and the loop goes on
\* with the next line
retrieveFile_resumed(s, received, made, fault) ==
    LET line == s.ftp.files[s.ftp.index]
        fileobject == [directory |-> FILE_NAME_MATCHER(line.filename),
                       name |-> line.filename, part |-> TRUE, size |-> received]
        closed == [s EXCEPT !.ftp.received = received,
                             !.ftp.local = IF received = None THEN @
                                           ELSE @ \cup {fileobject}]
        retrieved == IF received = None THEN closed
                     ELSE _file_retrieved(closed, fileobject, line.size, fault)
    IN  _retrieve_files([retrieved EXCEPT !.ftp.index = @ + 1, !.raised = "none"], made)

-----------------------------------------------------------------------------
(* CamdsPortAgent's RetrieveFileFactory.  A file name is the directory it  *)
(* was listed in, fpath, and the name of the listing, filename; a name     *)
(* without a directory has the fpath ''.  calls holds the calls the        *)
(* reactor was given with callLater and the SMB requests without answer.   *)

\* IMG_PATTERN.match(file_name): the groups (year, month, day), or no
\* groups, <<>>, for the None of a name without a date
IMG_PATTERN(file_name) ==
    CASE file_name.filename = "20150713T120000.jpg" -> <<"2015", "07", "13">>
      [] OTHER -> <<>>

reactor_callLater(s, name, fpath) ==
    [s EXCEPT !.camds.calls = Append(@, [kind |-> "call", name |-> name, fpath |-> fpath])]

\* listPath and retrieveFile: a request is sent, its Deferred is returned
SMBRequest(s, name, fpath) ==
    [s EXCEPT !.camds.calls = Append(@, [kind |-> "request", name |-> name, fpath |-> fpath])]

\* dirsListed: a call of list_files for every directory 'Stills*', then
\* one call of fetch_file
dirsListed(s, results) ==
    LET descend[i \in 0..Len(results)] ==
            IF i = 0 THEN s
            ELSE IF results[i] \in {".", ".."} THEN descend[i - 1]
            ELSE reactor_callLater(descend[i - 1], "list_files", results[i])
    IN  reactor_callLater(descend[Len(results)], "fetch_file", "")

\* filesListed: file_name is os.path.join(fpath, img_name.filename); every
\* name of the listing ends in 'jpg'
filesListed(s, results, fpath) ==
    LET queue[i \in 0..Len(results)] ==
            IF i = 0 THEN s.camds.pending_file_queue
            ELSE LET file_name == [fpath |-> fpath, filename |-> results[i]]
                     retrieved == {s.camds.retrieved_file_queue[k] :
                                      k \in 1..Len(s.camds.retrieved_file_queue)}
                     pending == {queue[i - 1][k] : k \in 1..Len(queue[i - 1])}
                 IN  IF file_name \notin retrieved /\ file_name \notin pending
                     THEN Append(queue[i - 1], file_name)
                     ELSE queue[i - 1]
    IN  [s EXCEPT !.camds.pending_file_queue = queue[Len(results)]]

\* fetch_file that downloads a file although its name has no date
fetch_file_goes_on(s) ==
    IF s.camds.pending_file_queue # <<>>
    THEN LET file_name == Head(s.camds.pending_file_queue)
             popped == [s EXCEPT !.camds.pending_file_queue = Tail(@),
                                 !.camds.file_obj = <<file_name>>]
         IN  IF IMG_PATTERN(file_name) = <<>>
             THEN SMBRequest(reactor_callLater(popped, "list_dirs", ""),
                             "retrieveFile", file_name.fpath)
             ELSE SMBRequest(popped, "retrieveFile", file_name.fpath)
    ELSE reactor_callLater(s, "list_dirs", "")

\* fetch_file.  For a name without a date it schedules list_dirs and goes
\* on to match.group, which raises AttributeError on None
fetch_file(s) ==
    IF s.camds.pending_file_queue # <<>>
    THEN LET file_name == Head(s.camds.pending_file_queue)
             popped == [s EXCEPT !.camds.pending_file_queue = Tail(@)]
         IN  IF IMG_PATTERN(file_name) = <<>>
             THEN [reactor_callLater(popped, "list_dirs", "") EXCEPT !.raised = "AttributeError"]
             ELSE SMBRequest([popped EXCEPT !.camds.file_obj = <<file_name>>],
                             "retrieveFile", file_name.fpath)
    ELSE reactor_callLater(s, "list_dirs", "")

\* fileRetrieved, the callback of retrieveFile, and fileRetrieveError, the
\* errback behind it, which also takes what fileRetrieved raises.  The
\* file on disk is '<ref_des>_<basename>', and the name recorded is the
\* second of the parts of that name between '_': the basename, without the
\* directory of the listing.  The deque drops its oldest entry when full
fileRetrieved(s, file_obj, fault) ==
    LET orig_filename == [fpath |-> "", filename |-> file_obj.filename]
        queue == s.camds.retrieved_file_queue
        recorded == [s EXCEPT !.camds.retrieved_file_queue =
                        IF Len(queue) = MAX_NUM_FILES
                        THEN Append(Tail(queue), orig_filename)
                        ELSE Append(queue, orig_filename)]
        routed == got_data(recorded, Packet_create("New Image:jpg", "FROM_INSTRUMENT"), fault)
    IN  IF routed.raised # "none"
        THEN reactor_callLater([routed EXCEPT !.raised = "none"], "list_dirs", "")
        ELSE reactor_callLater(routed, "fetch_file", "")

-----------------------------------------------------------------------------
(* The steps of the program *)

\* An agent that was given a configuration file, all of whose servers are
\* bound and whose first heartbeat was written to both log files.  This
\* specification leaves the schedule of the heartbeat and the answers of
\* the service directory open: _heartbeat can be called at any time.
Init ==
    \E type \in AgentTypes :
        Is(PortAgent_init(type, ConfigFile, Services, NoFault))

\* handlers that changed a counter since the last statistics flush
EventCount(stats) ==
    LET n(e) == stats[e].ADD_CLIENT + stats[e].DEL_CLIENT + stats[e].PACKET_IN
    IN  n("INSTRUMENT") + n("INSTRUMENT_DATA") + n("DIGI") + n("CLIENT")
          + n("COMMAND") + n("LOGGER") + n("DATALOGGER") + n("RAW")
          + n("COMMAND_HANDLER")

StatisticsRoom == EventCount(statistics) < MaxStatEvents

Registered(c) == c \in router_clients[EndpointOf(c)]

\* connectionMade of an instrument protocol: register with the router, then
\* tell the agent
InstrumentConnectionMade(c) ==
    /\ StatisticsRoom
    /\ c \in InstrumentLinks(agent_type)
    /\ ~Registered(c)
    /\ LET reg == register(Enter("instrument_connected"), EndpointOf(c), c)
       IN  \E fault \in Faults(reg, Packet_create("CONNECTED", "PA_STATUS")) :
              Becomes(instrument_connected(reg, c, fault))

\* connectionLost of an instrument protocol: deregister, then tell the agent
InstrumentConnectionLost(c) ==
    /\ StatisticsRoom
    /\ c \in InstrumentLinks(agent_type)
    /\ Registered(c)
    /\ LET dereg == deregister(Enter("instrument_disconnected"), EndpointOf(c), c)
       IN  Becomes(IF dereg.raised # "none" THEN dereg
                   ELSE instrument_disconnected(dereg, c))

\* connectionMade of a protocol accepted on the data port
ClientConnectionMade(c) ==
    /\ StatisticsRoom
    /\ c \in ClientLinks
    /\ ~Registered(c)
    /\ LET reg == register(Enter("client_connected"), EndpointOf(c), c)
       IN  IF agent_type = "zplsc"
           THEN \E todo \in 0..MaxFiles : \E missing \in BOOLEAN :
                  \E fault \in Faults(reg, Packet_create("downloaded file:raw",
                                                         "FROM_INSTRUMENT")) :
                     Becomes(ZplscPortAgent_client_connected(reg, c, todo,
                                                             missing, fault))
           ELSE Becomes(client_connected(reg, c))

\* connectionLost of a protocol accepted on the data port
ClientConnectionLost(c) ==
    /\ StatisticsRoom
    /\ c \in ClientLinks
    /\ Registered(c)
    /\ LET dereg == deregister(Enter("client_disconnected"), EndpointOf(c), c)
       IN  Becomes(IF dereg.raised # "none" THEN dereg
                   ELSE client_disconnected(dereg, c))

\* the batches of packets one read on connection c can produce
Batches(c) ==
    {[i \in 1..n |-> Packet_create(PayloadOf(i), PacketTypeOf(c))[1]] :
        n \in 1..MaxBatch}

\* dataReceived of a connected protocol: the packets go to the router
DataReceived(c) ==
    /\ StatisticsRoom
    /\ c \in Connections \ Loggers
    /\ Registered(c)
    /\ \E packets \in Batches(c) :
         \E fault \in Faults(State, packets) :
            Becomes(got_data(Enter("got_data"), packets, fault))

\* the reactor runs a delayed call that is due: notify_disconnected
DelayedCallRuns(i) ==
    /\ StatisticsRoom
    /\ i \in Pending(delayed_calls)
    /\ delayed_calls[i].time = 0
    /\ LET called == [Enter("notify_disconnected") EXCEPT
                        !.delayed_calls[i] = [state |-> "called", time |-> 0]]
       IN  \E fault \in Faults(called, Packet_create("DISCONNECTED", "PA_STATUS")) :
              Becomes(notify_disconnected(called, fault))

\* one second passes; a delayed call that is due runs before time moves on
Tick ==
    /\ Pending(delayed_calls) # {}
    /\ \A i \in Pending(delayed_calls) : delayed_calls[i].time > 0
    /\ Becomes([Enter("tick") EXCEPT
          !.delayed_calls =
              [i \in 1..Len(delayed_calls) |->
                  IF delayed_calls[i].state = "pending"
                  THEN [delayed_calls[i] EXCEPT !.time = @ - 1]
                  ELSE delayed_calls[i]]])

Heartbeat ==
    /\ StatisticsRoom
    /\ \E fault \in Faults(State, Packet_create("HB", "PA_HEARTBEAT")) :
          Becomes(_heartbeat(Enter("_heartbeat"), fault))

LogStats ==
    /\ statistics # NoStatistics
    /\ Becomes(_log_stats(Enter("_log_stats")))

GetState == Becomes(get_state(Enter("get_state")))

GetConfig == Becomes(get_config(Enter("get_config")))

GetVersion == Becomes(get_version(Enter("get_version")))

Next ==
    \/ \E c \in Connections : InstrumentConnectionMade(c)
    \/ \E c \in Connections : InstrumentConnectionLost(c)
    \/ \E c \in Connections : ClientConnectionMade(c)
    \/ \E c \in Connections : ClientConnectionLost(c)
    \/ \E c \in Connections : DataReceived(c)
    \/ \E i \in 1..Len(delayed_calls) : DelayedCallRuns(i)
    \/ Tick
    \/ Heartbeat
    \/ LogStats
    \/ GetState
    \/ GetConfig
    \/ GetVersion

Spec == Init /\ [][Next]_vars

-----------------------------------------------------------------------------
(* The router on its own: a Router that was just constructed, and the     *)
(* agent's membership handlers, with their methods called in any order    *)

\* packet types handed to got_data: one that add_route names, one that only
\* a route for ALL reaches, and one that is no key of the route table
UnitPacketTypes == {"PA_STATUS", "FROM_INSTRUMENT", "ALL"}

\* packet types handed to add_route
UnitRouteTypes == {"ALL", "PA_STATUS"}

UnitEndpoints == {"INSTRUMENT", "LOGGER"}

UnitFormats == {"ASCII", "RAW"}

\* an instrument connection, and a file sink and a connection of the sniff
\* port, both of endpoint type LOGGER
UnitConnections == {"inst", "ascii_logger"} \cup SniffLinks

\* Router.__init__ inside PortAgent.__init__, before any logger is
\* registered and any route is added
Router_alone == PortAgent_new("PortAgent")

UnitInit == Is(Router_alone)

\* calls that changed a counter since the last statistics flush
UnitEvents(stats) ==
    LET Sum[es \in SUBSET EndpointType] ==
            IF es = {} THEN 0
            ELSE LET e == CHOOSE x \in es : TRUE
                 IN  stats[e].ADD_ROUTE + Sum[es \ {e}]
    IN  Sum[EndpointType] + EventCount(stats)

UnitRoom == UnitEvents(statistics) < MaxCalls

\* add_route with any arguments; as in _create_routes, an endpoint type is
\* given one format
UnitAddRoute(packet_type, endpoint_type, data_format) ==
    /\ UnitRoom
    /\ \A t \in PacketType : \A r \in routes[t] :
          r[1] = endpoint_type => r[2] = data_format
    /\ Becomes(add_route(Enter("add_route"), packet_type, endpoint_type,
                         data_format))

\* register, also of a connection that is registered
UnitRegister(c) ==
    /\ UnitRoom
    /\ Becomes(register(Enter("register"), EndpointOf(c), c))

\* deregister, also of a connection that is not registered
UnitDeregister(c) ==
    /\ UnitRoom
    /\ Becomes(deregister(Enter("deregister"), EndpointOf(c), c))

UnitBatches(packet_type) ==
    {[i \in 1..n |-> Packet_create(PayloadOf(i), packet_type)[1]] :
        n \in 1..MaxBatch}

UnitGotData(packet_type) ==
    /\ UnitRoom
    /\ \E packets \in UnitBatches(packet_type) :
         \E fault \in Faults(State, packets) :
            Becomes(got_data(Enter("got_data"), packets, fault))

\* client_disconnected for any connection of the data port
UnitClientDisconnected(c) ==
    Becomes(client_disconnected(Enter("client_disconnected"), c))

\* instrument_disconnected for any instrument connection
UnitInstrumentDisconnected(c) ==
    Becomes(instrument_disconnected(Enter("instrument_disconnected"), c))

UnitNext ==
    \/ \E packet_type \in UnitRouteTypes :
         \E endpoint_type \in UnitEndpoints : \E data_format \in UnitFormats :
            UnitAddRoute(packet_type, endpoint_type, data_format)
    \/ \E c \in UnitConnections : UnitRegister(c)
    \/ \E c \in UnitConnections : UnitDeregister(c)
    \/ \E packet_type \in UnitPacketTypes : UnitGotData(packet_type)
    \/ \E c \in ClientLinks : UnitClientDisconnected(c)
    \/ \E c \in InstrumentLinks("tcp") : UnitInstrumentDisconnected(c)
    \/ LogStats

UnitSpec == UnitInit /\ [][UnitNext]_vars

-----------------------------------------------------------------------------
(* The service directory: an agent from its construction on, with the     *)
(* LoopingCall of _heartbeat, the host lookup and its retries, the answers *)
(* of the service directory, and a driver that comes, sends and goes       *)

\* a TcpPortAgent after its construction, with either configuration; the
\* first heartbeat met any of the faults a write can meet
ServiceInit ==
    \E configuration \in {ConfigFile, ConfigOptions} :
       \E fault \in Faults(PortAgent_prepared("tcp", configuration, Services),
                           Packet_create("HB", "PA_HEARTBEAT")) :
          Is(PortAgent_init("tcp", configuration, Services, fault))

\* the reactor runs the call of the LoopingCall that is due
HeartbeatRuns ==
    /\ heartbeat_task.call = "scheduled"
    /\ heartbeat_task.time = 0
    /\ StatisticsRoom
    /\ \E fault \in Faults(State, Packet_create("HB", "PA_HEARTBEAT")) :
          Becomes(LoopingCall_reschedule(
                     _heartbeat(Enter("_heartbeat"), fault), 0))

\* the service directory answers the refresh _heartbeat waits for, or the
\* request fails (connection refused)
RefreshAnswered(answer) ==
    /\ heartbeat_task.call = "waiting"
    /\ Becomes(LoopingCall_reschedule(
                  _heartbeat_resumed(Enter("_heartbeat"), answer),
                  heartbeat_task.time))

\* the service directory answers the host lookup, or the request fails
LookupAnswered(answer) ==
    /\ consul.lookups > 0
    /\ Becomes(get_consul_host_resumed(Enter("get_consul_host_resumed"),
                                        answer))

\* the reactor runs a retry of the host lookup that is due
RetryRuns(i) ==
    /\ consul.retries[i] = 0
    /\ Becomes(get_consul_host([Enter("get_consul_host") EXCEPT
          !.consul.retries = SubSeq(@, 1, i - 1) \o SubSeq(@, i + 1, Len(@))]))

\* One second passes; a call that is due runs before time moves on.  A
\* scheduled call comes nearer, a LoopingCall that waits for its Deferred
\* gets later in the interval.
Second ==
    /\ ~(heartbeat_task.call = "scheduled" /\ heartbeat_task.time = 0)
    /\ \A i \in 1..Len(consul.retries) : consul.retries[i] > 0
    /\ Becomes([Enter("tick") EXCEPT
          !.consul.retries = [i \in 1..Len(@) |-> @[i] - 1],
          !.heartbeat_task =
              CASE @.call = "scheduled" -> [@ EXCEPT !.time = @ - 1]
                [] @.call = "waiting"   ->
                      [@ EXCEPT !.time = (@ + 1) % HEARTBEAT_INTERVAL]
                [] OTHER -> @])

ServiceNext ==
    \/ HeartbeatRuns
    \/ \E answer \in {"response", "refused"} : RefreshAnswered(answer)
    \/ \E answer \in {"host", "refused", "no_member", "no_json"} :
          LookupAnswered(answer)
    \/ \E i \in 1..Len(consul.retries) : RetryRuns(i)
    \/ Second
    \/ \E c \in ClientLinks : ClientConnectionMade(c)
    \/ \E c \in ClientLinks : ClientConnectionLost(c)
    \/ \E c \in ClientLinks : DataReceived(c)
    \/ LogStats

ServiceSpec == ServiceInit /\ [][ServiceNext]_vars

-----------------------------------------------------------------------------
(* The start of the program: main() builds the agent statement by         *)
(* statement and then runs the reactor, which alone delivers connections   *)
(* and answers.  The agents are TcpPortAgent, RsnPortAgent and             *)
(* BotptPortAgent.                                                         *)

\* a BotptPortAgent whose constructor leaves the target count alone
Statements_count_unset ==
    [tcp   |-> <<"PortAgent.__init__", "num_connections = 1",
                 "_start_inst_connection", "reactor.run">>,
     rsn   |-> <<"PortAgent.__init__", "num_connections = 1",
                 "_start_inst_connection", "_set_binary",
                 "num_connections = 1", "reactor.run">>,
     botpt |-> <<"PortAgent.__init__", "_start_inst_connection",
                 "reactor.run">>]

\* the statements of main() from the constructor of the agent on: the
\* constructor of PortAgent, the statements of the subclasses after it,
\* and reactor.run()
Statements ==
    [tcp   |-> <<"PortAgent.__init__", "num_connections = 1",
                 "_start_inst_connection", "reactor.run">>,
     rsn   |-> <<"PortAgent.__init__", "num_connections = 1",
                 "_start_inst_connection", "_set_binary",
                 "num_connections = 1", "reactor.run">>,
     botpt |-> <<"PortAgent.__init__", "_start_inst_connection",
                 "num_connections = 2", "reactor.run">>]

StartInit ==
    \E type \in DOMAIN Statements :
       \E configuration \in {ConfigFile, ConfigOptions} :
          Is([PortAgent_new(type) EXCEPT !.config = configuration,
                                         !.main = Statements[type]])

\* the next statement of main()
Main ==
    /\ main # <<>>
    /\ LET s == [Enter(Head(main)) EXCEPT !.main = Tail(@)]
       IN  CASE Head(main) = "PortAgent.__init__" ->
                  \E bound \in {Services} \cup {Services \ {x} : x \in Services} :
                     Becomes([LoopingCall_reschedule(
                                 _heartbeat(PortAgent_prepared(
                                     agent_type, config, bound), NoFault), 0)
                              EXCEPT !.raised = "none",
                                     !.main = Tail(main),
                                     !.step = Head(main)])
             [] Head(main) = "num_connections = 1" ->
                  Becomes([s EXCEPT !.num_connections = 1])
             [] Head(main) = "num_connections = 2" ->
                  Becomes([s EXCEPT !.num_connections = 2])
             [] Head(main) = "_set_binary" ->
                  Becomes(_handle_digi_command(s, "BINARY_TIMESTAMP"))
             [] OTHER -> Becomes(s)

\* the answer to a registration arrives
RegistrationAnswered(service, answer) ==
    /\ main = <<>>
    /\ registrations[service].answer = "in_flight"
    /\ Becomes(got_port_cb_resumed(Enter("got_port_cb_resumed"), service, answer))

\* the outcome of a connection to the command port of the DIGI arrives
DigiConnection(i, connected) ==
    /\ main = <<>>
    /\ StatisticsRoom
    /\ digi[i].protocol = "connecting"
    /\ \E fault \in Faults(State, Packet_create(digi[i].command, "DIGI_CMD")) :
          Becomes(_handle_digi_command_resumed(
                     Enter("_handle_digi_command_resumed"), i, connected, fault))

StartNext ==
    \/ Main
    \/ \E service \in Services : \E answer \in {"response", "refused"} :
          RegistrationAnswered(service, answer)
    \/ \E i \in 1..Len(digi) : \E connected \in BOOLEAN :
          DigiConnection(i, connected)
    \/ main = <<>> /\ \E c \in Connections : InstrumentConnectionMade(c)
    \/ main = <<>> /\ \E c \in Connections : InstrumentConnectionLost(c)
    \/ main = <<>> /\ LogStats

StartSpec == StartInit /\ [][StartNext]_vars

-----------------------------------------------------------------------------
(* The RSN agent at work: an RsnPortAgent that was started with a         *)
(* configuration file, the DIGI commands it is sent, the outcomes of      *)
(* their connections, and its instrument link                              *)

RsnInit == Is(PortAgent_init("rsn", ConfigFile, Services, NoFault))

\* a command line of the DIGI arrives on the command port of the agent
DigiCommand(command) ==
    /\ Len(digi) <= MaxCommands
    /\ Becomes(_handle_digi_command(Enter("_handle_digi_command"), command))

RsnNext ==
    \/ \E command \in {"time", "power"} : DigiCommand(command)
    \/ \E i \in 1..Len(digi) : \E connected \in BOOLEAN :
          DigiConnection(i, connected)
    \/ \E c \in Connections : InstrumentConnectionMade(c)
    \/ \E c \in Connections : InstrumentConnectionLost(c)
    \/ LogStats

RsnSpec == RsnInit /\ [][RsnNext]_vars

-----------------------------------------------------------------------------
(* The statistics queue: an agent, its driver, the statistics tick and    *)
(* the connection of the StatisticsPublisher, which comes and goes         *)

StatsInit == Is(PortAgent_init("tcp", ConfigFile, Services, NoFault))

\* the reactor delivers an event of the connection to the queue
PublisherEvent(event) ==
    /\ CASE event = "buildProtocol" -> stats_publisher.link = "connecting"
         [] event = "get_channel" -> /\ stats_publisher.link = "connected"
                                     /\ stats_publisher.channel = None
         [] event = "clientConnectionLost" -> stats_publisher.link = "connected"
         [] event = "clientConnectionFailed" -> stats_publisher.link = "connecting"
    /\ Becomes(ReconnectingPikaFactory(Enter(event), event))

StatsNext ==
    \/ \E event \in {"buildProtocol", "get_channel", "clientConnectionLost",
                      "clientConnectionFailed"} : PublisherEvent(event)
    \/ LogStats
    \/ \E c \in ClientLinks : ClientConnectionMade(c)
    \/ \E c \in ClientLinks : ClientConnectionLost(c)
    \/ \E c \in ClientLinks : DataReceived(c)
    \/ \E c \in Connections : InstrumentConnectionMade(c)

StatsSpec == StatsInit /\ [][StatsNext]_vars

-----------------------------------------------------------------------------
(* The Antelope agent: the reactor thread and the OrbThread take steps in *)
(* any order.  A call of got_data routes its packets one after the other;  *)
(* while the reactor thread is in one, the reactor delivers nothing else.  *)

OrbInit == Is(PortAgent_init("antelope", ConfigFile, Services, NoFault))

\* the reactor thread is not inside a call of got_data
ReactorIdle ==
    \A i \in 1..Len(dispatching) : dispatching[i].thread # "reactor"

\* the commands orbstart and orbstop
OrbCommand(command) ==
    /\ ReactorIdle
    /\ Becomes(IF command = "orbstart" THEN _orb_start(Enter("_orb_start"))
               ELSE _orb_stop(Enter("_orb_stop")))

\* the OrbThread takes its next step
OrbThreadRuns ==
    /\ orb.pc \in {"while", "reap"}
    /\ \E outcome \in {"packet", "OrbIncompleteException"} :
         \E channels \in 1..MaxBatch :
            /\ outcome = "packet" => orb.reaped < MaxReaps
            /\ Becomes(OrbThread_run(Enter("OrbThread.run"), outcome, channels))

\* the reactor thread takes the oldest call off its queue of calls from
\* threads and enters got_data
ThreadCallRuns ==
    /\ ReactorIdle
    /\ StatisticsRoom
    /\ orb.calls # <<>>
    /\ Becomes([Enter("runUntilCurrent") EXCEPT
          !.orb.calls = Tail(@),
          !.orb.injected = Head(orb.calls).n,
          !.dispatching = Append(@, [thread |-> "reactor",
                                     packets |-> Head(orb.calls).packets])])

\* got_data routes the next packet of its argument and returns after the
\* last one
Dispatch(i) ==
    LET routed == got_data(Enter("got_data"), <<Head(dispatching[i].packets)>>,
                           NoFault)
    IN  Becomes([routed EXCEPT !.dispatching =
                    IF Len(@[i].packets) = 1
                    THEN SubSeq(@, 1, i - 1) \o SubSeq(@, i + 1, Len(@))
                    ELSE [@ EXCEPT ![i].packets = Tail(@)]])

OrbNext ==
    \/ \E command \in {"orbstart", "orbstop"} : OrbCommand(command)
    \/ OrbThreadRuns
    \/ ThreadCallRuns
    \/ \E i \in 1..Len(dispatching) : Dispatch(i)
    \/ ReactorIdle /\ \E c \in ClientLinks : ClientConnectionMade(c)
    \/ ReactorIdle /\ \E c \in ClientLinks : ClientConnectionLost(c)
    \/ ReactorIdle /\ LogStats

OrbSpec == OrbInit /\ [][OrbNext]_vars

-----------------------------------------------------------------------------
(* The log file: an ArchivingDailyLogFile whose last write was on any day  *)
(* of the years modelled, and the calls of its methods                     *)

\* the dates time.gmtime gives for the years modelled
Dates ==
    {<<year, month, day>> : year \in {1970, 2016}, month \in 1..12, day \in 1..31} \
    {date \in {1970, 2016} \X (1..12) \X (1..31) :
        \/ date[2] \in {4, 6, 9, 11} /\ date[3] > 30
        \/ date[2] = 2 /\ date[3] > (IF date[1] % 4 = 0 THEN 29 ELSE 28)}

\* the arguments suffix is called with: the seconds of days of 1970, of
\* leap days and of the ends of years, as int and as float, and values of
\* the types that are neither a number nor a (year, month, day) tuple
UnixTimes ==
    {0, 86399, 86400, 5097600, 68255999, 951782400, 1451606399, 1451606400,
     1456704000, 1456790400, 1483228799}

Arguments ==
    [type : {"int", "float"}, value : UnixTimes]
    \cup {[type |-> "long", value |-> 1451606400],
          [type |-> "str", value |-> <<>>],
          [type |-> "NoneType", value |-> <<>>],
          [type |-> "list", value |-> <<2016, 1, 1>>],
          [type |-> "tuple", value |-> <<2016, 1>>]}

\* the states of the file system rotate can meet: the log directory and the
\* log file exist, the archive directory and the archive target may
FileSystems ==
    LET f == Router_alone.logfile
        path == os_path_join(f.directory, f.name)
        newdirectory == get_archive(f)[2]
        newpath == os_path_join(newdirectory, get_archive(f)[1])
    IN  {fs \in [exists : {{f.directory, path} \cup more : more \in SUBSET {newdirectory, newpath}},
                 writable : SUBSET {f.directory, path, newdirectory},
                 creatable : BOOLEAN] :
            /\ fs.writable \subseteq fs.exists
            /\ newpath \in fs.exists => newdirectory \in fs.exists}

\* a log file of any name, archive and date; or the log file of the tests
\* with any argument for suffix; or with any state of the file system
LogfileInit ==
    \/ \E name \in {"test", "refdes.log"} :
          \E archive_dir \in {"archivedir", "data/archive"} :
             \E lastDate \in Dates :
                Is([Router_alone EXCEPT
                       !.logfile.name = name,
                       !.logfile.archive_dir = archive_dir,
                       !.logfile.lastDate = lastDate,
                       !.logfile.tupledate = [type |-> "tuple", value |-> lastDate],
                       !.logfile.exists = {"logdir", os_path_join("logdir", name)},
                       !.logfile.writable = {"logdir", os_path_join("logdir", name)}])
    \/ \E tupledate \in Arguments :
          Is([Router_alone EXCEPT !.logfile.tupledate = tupledate])
    \/ \E fs \in FileSystems :
          Is([Router_alone EXCEPT !.logfile.exists = fs.exists,
                                  !.logfile.writable = fs.writable,
                                  !.logfile.creatable = fs.creatable])

GetArchive ==
    /\ step # "get_archive"
    /\ Becomes([Enter("get_archive") EXCEPT !.returned = get_archive(logfile)])

Suffix ==
    /\ step # "suffix"
    /\ LET result == suffix(logfile.tupledate)
       IN  Becomes([Enter("suffix") EXCEPT !.returned = result.returned,
                                           !.raised = result.raised])

\* rotate, which write calls when the date has changed
Rotate ==
    /\ logfile.closed = 0
    /\ step # "rotate"
    /\ LET rotated == rotate(logfile)
       IN  Becomes([Enter("rotate") EXCEPT !.logfile = rotated,
                                           !.raised = rotated.raised])

LogfileNext == GetArchive \/ Suffix \/ Rotate

LogfileSpec == LogfileInit /\ [][LogfileNext]_vars

-----------------------------------------------------------------------------
(* The ZPLSC agent's FTP client: the passes of _get_files over listings   *)
(* of the instrument's directory and the transfers they start, with or    *)
(* without a driver connected                                              *)

\* the files of the instrument, in the order of its listings, with the
\* sizes it lists
ListedFiles ==
    <<[filename |-> [stem |-> "OOI-D20150713-T155500", ext |-> ".bot"], size |-> 1],
      [filename |-> [stem |-> "OOI-D20150713-T155500", ext |-> ".idx"], size |-> 1],
      [filename |-> [stem |-> "OOI-D20150713-T155500", ext |-> ".raw"], size |-> 2],
      [filename |-> [stem |-> "OOI-D20150714-T074455", ext |-> ".raw"], size |-> 3],
      [filename |-> [stem |-> "notes", ext |-> ".raw"], size |-> 1]>>

\* the listings: the instrument deletes files and writes new ones
Listings ==
    {SelectSeq(ListedFiles, LAMBDA line : line \in present) :
        present \in SUBSET {ListedFiles[i] : i \in 1..Len(ListedFiles)}}

\* after _process_local_files, which found nothing or one file retrieved
\* earlier, and with the FTP connection made
ZplscInit ==
    \E found \in SUBSET {ListedFiles[3].filename} :
       \E connected \in BOOLEAN :
          LET agent == PortAgent_init("zplsc", ConfigFile, Services, NoFault)
              driven == IF connected
                        THEN client_connected(register(agent, "CLIENT", "driver"), "driver")
                        ELSE agent
          IN  Is([driven EXCEPT
                     !.ftp.retrieved_files = found,
                     !.ftp.local = {[directory |-> FILE_NAME_MATCHER(name), name |-> name,
                                     part |-> FALSE, size |-> 2] : name \in found},
                     !.ftp.dirs = {FILE_NAME_MATCHER(name) : name \in found},
                     !.ftp.pc = "callLater"])

GetFiles ==
    /\ ftp.pc = "callLater"
    /\ ftp.passes < MaxPasses
    /\ \E files \in Listings : \E made \in BOOLEAN :
          Becomes(_get_files(Enter("_get_files"), files, made))

TransferEnds ==
    /\ ftp.pc = "retrieveFile"
    /\ \E received \in {None, ftp.files[ftp.index].size, ftp.files[ftp.index].size - 1} :
          \E made \in BOOLEAN :
             \E fault \in IF received # ftp.files[ftp.index].size THEN {NoFault}
                          ELSE Faults(State, Packet_create("downloaded file:raw",
                                                           "FROM_INSTRUMENT")) :
                Becomes(retrieveFile_resumed(Enter("_file_retrieved"), received, made, fault))

ZplscNext == GetFiles \/ TransferEnds

ZplscSpec == ZplscInit /\ [][ZplscNext]_vars

-----------------------------------------------------------------------------
(* The default route table: a router with the loggers and the routes of   *)
(* _create_routes, connections registered under any endpoint types, and a *)
(* call of got_data with packets of any type                               *)

\* the agent after _register_loggers and _create_routes, with three more
\* connections registered, each under any endpoint type
RouteInit ==
    \E endpoint_type \in [{"inst", "driver", "sniffer"} -> EndpointType] :
       LET agent == _create_routes(_register_loggers(Router_alone))
           one == register(agent, endpoint_type["inst"], "inst")
           two == register(one, endpoint_type["driver"], "driver")
       IN  Is(register(two, endpoint_type["sniffer"], "sniffer"))

\* one call of got_data; the calls before it left nothing but counters
RouteGotData(packet_type) ==
    /\ step # "got_data"
    /\ \E packets \in UnitBatches(packet_type) :
         \E fault \in Faults(State, packets) :
            Becomes(got_data(Enter("got_data"), packets, fault))

RouteNext == \E packet_type \in PacketType : RouteGotData(packet_type)

RouteSpec == RouteInit /\ [][RouteNext]_vars

-----------------------------------------------------------------------------
(* The CAMDS agent's retrieval loop in one authenticated SMB session: the *)
(* reactor runs the calls it was given and the camera answers requests,   *)
(* in any order                                                            *)

\* onAuthOK and process_existing_files, which found no file on disk and
\* scheduled list_dirs
CamdsInit ==
    \E connected \in BOOLEAN :
       LET agent == PortAgent_init("tcp", ConfigFile, Services, NoFault)
           driven == IF connected
                     THEN client_connected(register(agent, "CLIENT", "driver"), "driver")
                     ELSE agent
       IN  Is(reactor_callLater(driven, "list_dirs", ""))

\* the reactor runs a call: list_dirs, list_files or fetch_file
CallRuns(i) ==
    /\ camds.calls[i].kind = "call"
    /\ LET call == camds.calls[i]
           s == [Enter(call.name) EXCEPT !.camds.calls = SubSeq(@, 1, i - 1)
                                                     \o SubSeq(@, i + 1, Len(@))]
       IN  CASE call.name = "fetch_file" -> Becomes(fetch_file(s))
             [] OTHER ->
                  /\ camds.rounds < MaxRounds
                  /\ Becomes(SMBRequest([s EXCEPT !.camds.rounds = @ + 1],
                                        call.name, call.fpath))

\* the camera answers a request, or the request fails or times out
RequestAnswered(i) ==
    /\ camds.calls[i].kind = "request"
    /\ LET request == camds.calls[i]
           s == [Enter(request.name) EXCEPT !.camds.calls = SubSeq(@, 1, i - 1)
                                                     \o SubSeq(@, i + 1, Len(@))]
       IN  CASE request.name = "list_dirs" ->
                  \/ \E results \in {<<".", "..">>, <<".", "..", "Stills">>} :
                        Becomes(dirsListed(s, results))
                  \/ Becomes(reactor_callLater([s EXCEPT !.logged = <<"dirListingError">>],
                                       "list_dirs", ""))
             [] request.name = "list_files" ->
                  \/ \E results \in {<<>>, <<"20150713T120000.jpg">>, <<"snapshot.jpg">>,
                                     <<"20150713T120000.jpg", "snapshot.jpg">>} :
                        Becomes(filesListed(s, results, request.fpath))
                  \/ Becomes(reactor_callLater([s EXCEPT !.logged = <<"fileListingError">>],
                                       "list_files", request.fpath))
             [] request.name = "retrieveFile" ->
                  \/ \E fault \in Faults(s, Packet_create("New Image:jpg", "FROM_INSTRUMENT")) :
                        Becomes(fileRetrieved(s, camds.file_obj[1], fault))
                  \/ Becomes(reactor_callLater([s EXCEPT !.logged = <<"fileRetrieveError">>],
                                       "list_dirs", ""))

CamdsNext ==
    \/ \E i \in 1..Len(camds.calls) : CallRuns(i)
    \/ \E i \in 1..Len(camds.calls) : RequestAnswered(i)

CamdsSpec == CamdsInit /\ [][CamdsNext]_vars

-----------------------------------------------------------------------------
(* Properties *)

\* the last step passed a PA_STATUS packet with this payload to the router
Emitted(payload) ==
    \E i \in 1..Len(dispatched) :
        /\ dispatched[i].header.packet_type = "PA_STATUS"
        /\ dispatched[i].payload = payload

Live == Cardinality(connections)

\* what the fan-out of the dispatched packets writes to connection c
RECURSIVE FanOut(_, _)
FanOut(packets, c) ==
    IF packets = <<>> THEN <<>>
    ELSE RenderAll(Head(packets), InSomeOrder(EntriesTo(State, Head(packets), c)))
           \o FanOut(Tail(packets), c)

\* C1: for every packet passed to got_data and every route entry of its
\* type, each connection registered under the entry's endpoint type gets
\* exactly one write, the packet rendered in the entry's format, and no
\* other connection gets a write.
C1_FanOutComplete ==
    \A c \in Connections : written[c] = FanOut(dispatched, c)

\* C2: a step emits a CONNECTED status packet exactly when it brings the
\* live instrument set from below the target count to the target count.
C2_ConnectedExactlyOnRestore ==
    [][Emitted("CONNECTED")' <=>
          (Live < num_connections /\ Live' = num_connections)]_vars

\* C3: when the live set is restored to the target while the forgiveness
\* call is pending, the call is cancelled and no DISCONNECTED is emitted; a
\* cancelled call stays cancelled, and DISCONNECTED is emitted only by a
\* pending call that runs.
C3_Debounce ==
    [][/\ \A i \in Pending(delayed_calls) :
            Live' = num_connections
               => /\ delayed_calls'[i].state = "cancelled"
                  /\ ~Emitted("DISCONNECTED")'
       /\ \A i \in 1..Len(delayed_calls) :
            delayed_calls[i].state = "cancelled"
               => delayed_calls'[i].state = "cancelled"
       /\ Emitted("DISCONNECTED")'
            => \E i \in Pending(delayed_calls) :
                  delayed_calls[i].time = 0 /\ delayed_calls'[i].state = "called"
      ]_vars

\* the first outage: the loss started the call, the reconnect cancelled it
C3_Witness ==
    /\ step = "instrument_connected"
    /\ raised = "none"
    /\ Live = num_connections
    /\ Emitted("CONNECTED")
    /\ \E i \in 1..Len(delayed_calls) : delayed_calls[i].state = "cancelled"

\* C4: whenever instrument_disconnected leaves the live set below the
\* target and no forgiveness call is pending, it starts one.
C4_EveryOutageStartsTimer ==
    [][(/\ step' = "instrument_disconnected"
        /\ raised' = "none"
        /\ Live' < num_connections
        /\ Pending(delayed_calls) = {})
          => Pending(delayed_calls') # {}]_vars

\* C5: once the forgiveness call has run, an instrument_connected that
\* restores the live set to the target raises nothing of its own and emits
\* CONNECTED.
C5_ReconnectAfterNotification ==
    [][(/\ \E i \in 1..Len(delayed_calls) : delayed_calls[i].state = "called"
        /\ Live < num_connections
        /\ Live' = num_connections)
          => /\ raised' \notin {"AlreadyCalled", "AlreadyCancelled"}
             /\ Emitted("CONNECTED")']_vars

\* C6: cancel is never invoked on a call that was cancelled or has run
\* (DelayedCall.cancel raises AlreadyCancelled or AlreadyCalled when it is).
C6_CancelOnlyPending ==
    raised \notin {"AlreadyCancelled", "AlreadyCalled"}

\* C7: at most one forgiveness call is pending, and an
\* instrument_disconnected made while one is pending leaves the delayed
\* calls as they are: no second call, no new delay.
C7_OnePendingTimer ==
    [][/\ Cardinality(Pending(delayed_calls')) <= 1
       /\ (step' = "instrument_disconnected" /\ Pending(delayed_calls) # {})
             => delayed_calls' = delayed_calls]_vars

\* a loss while the call started by an earlier loss is part-way through
C7_Witness ==
    /\ step = "instrument_disconnected"
    /\ raised = "none"
    /\ \E i \in Pending(delayed_calls) :
          delayed_calls[i].time < INSTRUMENT_DISCONNECT_FORGIVENESS_INTERVAL

\* C8: get_state returns one PA_STATUS packet whose payload is CONNECTED
\* if and only if the live set has the target size, DISCONNECTED otherwise,
\* whatever the state of the forgiveness call.
C8_GetState ==
    step = "get_state"
       => /\ Len(returned) = 1
          /\ returned[1].header.packet_type = "PA_STATUS"
          /\ returned[1].payload \in {"CONNECTED", "DISCONNECTED"}
          /\ returned[1].payload = "CONNECTED" <=> Live = num_connections

\* 0 of 1 target connections live, forgiveness call still pending
C8_Witness ==
    /\ step = "get_state"
    /\ num_connections = 1
    /\ Live = 0
    /\ Pending(delayed_calls) # {}
    /\ returned[1].payload = "DISCONNECTED"

Getters == {"get_state", "get_config", "get_version"}

\* C9: get_state, get_config and get_version return their packet and
\* change nothing else: live set, client set, forgiveness call, routes,
\* registry and statistics stay, and no packet is routed or written.
C9_GettersPure ==
    [][step' \in Getters
          => /\ UNCHANGED <<num_connections, connections, clients,
                            disconnect_notification_id, delayed_calls,
                            routes, router_clients, statistics>>
             /\ dispatched' = <<>>
             /\ written' = NoWrites
             /\ raised' = "none"
             /\ Len(returned') = 1]_vars

\* a getter answered while a call was pending, a client was connected and
\* counters had been incremented
C9_Witness ==
    /\ step \in Getters
    /\ Len(returned) = 1
    /\ Pending(delayed_calls) # {}
    /\ clients # {}
    /\ statistics # NoStatistics

\* C10: when a write raises during got_data, every other connection still
\* gets all its writes for every packet of the batch: at most the failing
\* connection is short of writes.
C10_WriteFailureIsolated ==
    \A c1, c2 \in Connections :
        c1 # c2 => \/ written[c1] = FanOut(dispatched, c1)
                   \/ written[c2] = FanOut(dispatched, c2)

\* C11: Router.deregister, client_disconnected and instrument_disconnected
\* return without raising also when the connection is not, or is no longer,
\* a member (set.remove of an absent member raises KeyError).
C11_DoubleDeregistrationTolerated ==
    step \in {"deregister", "client_disconnected", "instrument_disconnected"}
       => raised = "none"

\* the route table has no entry for the packet's type
NoRoute(packet) ==
    \/ packet.header.packet_type \notin DOMAIN routes
    \/ routes[packet.header.packet_type] = {}

\* C12: a call of got_data whose packets are of types without a route
\* writes to no connection and raises nothing, whatever connections are
\* registered.
C12_NoRouteNoWrite ==
    (/\ step = "got_data"
     /\ \A i \in 1..Len(dispatched) : NoRoute(dispatched[i]))
       => /\ written = NoWrites
          /\ raised = "none"

\* an unrouted packet was dispatched while another type has a route to a
\* registered connection
C12_Witness ==
    /\ step = "got_data"
    /\ dispatched # <<>>
    /\ \A i \in 1..Len(dispatched) : NoRoute(dispatched[i])
    /\ \E t \in PacketType : \E r \in routes[t] : router_clients[r[1]] # {}
    /\ written = NoWrites

\* add_route(ALL, e, ASCII) made the only route for endpoint type e
OnlyAllAscii(e) ==
    \A t \in PacketType : {r \in routes[t] : r[1] = e} = {<<e, "ASCII">>}

RECURSIVE AsciiOf(_)
AsciiOf(packets) ==
    IF packets = <<>> THEN <<>>
    ELSE <<Render(Head(packets), "ASCII")>> \o AsciiOf(Tail(packets))

\* C13: when the route of ALL to (e, ASCII) is the only route for endpoint
\* type e, every connection registered under e gets, for every packet of a
\* concrete type passed to got_data, exactly one write, the packet in ASCII
\* format.  Stated for the connections whose own write cannot fail: the
\* failing write of another sink must not take theirs away.
C13_AllRouteAscii ==
    (/\ step = "got_data"
     /\ \A i \in 1..Len(dispatched) :
           dispatched[i].header.packet_type \in PacketType)
       => \A e \in EndpointType :
             OnlyAllAscii(e)
                => \A c \in router_clients[e] \ CanRaise :
                      written[c] = AsciiOf(dispatched)

\* C14: for every route table the router reaches and all arguments, a second
\* add_route with the same arguments leaves the table as the first one made
\* it; the first one only inserts the entry (endpoint_type, data_format),
\* into the set of the packet type named, and for ALL into the set of every
\* concrete packet type at once.
C14_AddRouteIdempotent ==
    \A packet_type \in UnitRouteTypes :
      \A endpoint_type \in UnitEndpoints : \A data_format \in UnitFormats :
        LET entry == <<endpoint_type, data_format>>
            once == add_route(State, packet_type, endpoint_type, data_format)
            twice == add_route(once, packet_type, endpoint_type, data_format)
        IN  /\ twice.routes = once.routes
            /\ \A t \in PacketType :
                  once.routes[t] =
                     IF packet_type \in {"ALL", t}
                     THEN routes[t] \cup {entry} ELSE routes[t]
            /\ packet_type = "ALL"
                  => \A t \in PacketType : entry \in once.routes[t]

\* add_route was called twice with (PA_STATUS, LOGGER, ASCII) since the last
\* flush, and the table holds the one entry
C14_Witness ==
    /\ step = "add_route"
    /\ statistics["LOGGER"].ADD_ROUTE = 2
    /\ \A t \in PacketType :
          routes[t] = IF t = "PA_STATUS" THEN {<<"LOGGER", "ASCII">>} ELSE {}

\* the route table _create_routes builds on an empty router
DefaultRoutes == _create_routes(Router_alone).routes

\* C15: the route table is the complete default table before the first
\* packet is dispatched, and no step of the agent (data, connects and
\* disconnects, timer, heartbeat, statistics flush, command handlers) adds
\* or removes a route.
C15_RoutesReadOnly ==
    /\ routes = DefaultRoutes
    /\ \A t \in PacketType :
          {<<"LOGGER", "ASCII">>, <<"DATALOGGER", "PACKET">>} \subseteq routes[t]

\* packets were routed to a driver that connected after construction
C15_Witness ==
    /\ step = "got_data"
    /\ raised = "none"
    /\ "driver" \in router_clients["CLIENT"]
    /\ written["driver"] # <<>>
    /\ routes = DefaultRoutes

\* the connections a packet's routes in ASCII format lead to
AsciiSubscribers(packet) ==
    UNION {router_clients[r[1]] : r \in {x \in RoutesOf(State, packet) : x[2] = "ASCII"}}

RECURSIVE RoutedTo(_, _)
RoutedTo(packets, e) ==
    IF packets = <<>> THEN <<>>
    ELSE (IF \E r \in RoutesOf(State, Head(packets)) : r[1] = e
          THEN <<Head(packets)>> ELSE <<>>) \o RoutedTo(Tail(packets), e)

RECURSIVE SizeSum(_)
SizeSum(packets) ==
    IF packets = <<>> THEN 0
    ELSE Head(packets).header.packet_size + SizeSum(Tail(packets))

\* C17: when a step routes N packets to an endpoint type (each came to the
\* type's route entry and was counted in PACKET_IN) while K connections are
\* registered under it, PACKET_OUT of the type grows by N * K and BYTES_OUT
\* by K times the sum of the N packet sizes; so between two resets the
\* counters are these products for the packets routed since the reset.
C17_BytesOut ==
    [][\A e \in EndpointType :
         LET K == Cardinality(router_clients'[e])
             routed == RoutedTo(dispatched', e)
         IN  (/\ step' # "_log_stats"
              /\ statistics'[e].PACKET_IN = statistics[e].PACKET_IN + Len(routed)
              /\ statistics'[e].BYTES_IN = statistics[e].BYTES_IN + SizeSum(routed))
                => /\ statistics'[e].PACKET_OUT =
                         statistics[e].PACKET_OUT + Len(routed) * K
                   /\ statistics'[e].BYTES_OUT =
                         statistics[e].BYTES_OUT + SizeSum(routed) * K
      ]_vars

RouterStat ==
    {"ADD_ROUTE", "ADD_CLIENT", "DEL_CLIENT", "PACKET_IN", "PACKET_OUT",
     "BYTES_IN", "BYTES_OUT"}

\* no step but the flush prints or lowers a counter
CountersKept ==
    step' # "_log_stats"
       => /\ logged' = <<>>
          /\ \A e \in EndpointType : \A k \in RouterStat :
                statistics'[e][k] >= statistics[e][k]

RECURSIVE PacketsOf(_)
PacketsOf(packets) ==
    IF packets = <<>> THEN <<>>
    ELSE <<Render(Head(packets), "PACKET")>> \o PacketsOf(Tail(packets))

\* C19: every packet passed to got_data, whatever its type, is written
\* exactly once to the ASCII logger in ASCII format and exactly once to the
\* data logger in PACKET format.  Stated for the log file whose own write
\* does not fail: the failing write of one log file must not take a packet
\* from the other.
C19_LoggersGetEverything ==
    \/ written["ascii_logger"] = AsciiOf(dispatched)
    \/ written["data_logger"] = PacketsOf(dispatched)

\* C20: client_connected and client_disconnected change the client set by
\* the one connection and leave the live instrument set, the target count
\* and the forgiveness call as they are; they emit no PA_STATUS packet.
C20_ClientsOnly ==
    [][step' \in {"client_connected", "client_disconnected"}
         => /\ connections' = connections
            /\ num_connections' = num_connections
            /\ disconnect_notification_id' = disconnect_notification_id
            /\ delayed_calls' = delayed_calls
            /\ Cardinality((clients' \ clients) \cup (clients \ clients')) <= 1
            /\ \A i \in 1..Len(dispatched') :
                  dispatched'[i].header.packet_type # "PA_STATUS"
      ]_vars

\* a driver connected to the ZPLSC agent and was told of a retrieved file
C20_Witness ==
    /\ step = "client_connected"
    /\ agent_type = "zplsc"
    /\ raised = "none"
    /\ "driver" \in clients
    /\ Len(dispatched) = 1
    /\ written["driver"] # <<>>

\* C21: the LoopingCall of _heartbeat keeps running for the agent's
\* lifetime: whatever a refresh of the service directory answers, and
\* whatever configuration the agent was given, a next call of _heartbeat
\* is scheduled or the call in progress will schedule one.
C21_HeartbeatNeverStops ==
    /\ heartbeat_task.running
    /\ heartbeat_task.call \in {"scheduled", "waiting"}

\* the host lookups that are under way: sent and not answered, or scheduled
Lookups(c) == c.lookups + Len(c.retries)

\* C22: a host lookup that is refused (or answered without the member's
\* address) is scheduled again CONSUL_RETRY_INTERVAL seconds ahead, and the
\* retry sends the lookup when it is due; the lookup stays under way until
\* it succeeds or ends in a failure the code does not handle; at most one
\* lookup is under way at a time; after a success none is; and the steps of
\* the lookup leave the routes, the registry, the counters, the client and
\* instrument sets and the recorded ports as they are and write nothing.
C22_HostLookupRetried ==
    [][/\ Lookups(consul') <= 1
       /\ config.host => config'.host /\ Lookups(consul') = 0
       /\ step' = "get_consul_host_resumed"
             => /\ consul.lookups = 1
                /\ consul'.lookups = 0
                /\ consul'.retries =
                      IF ~config'.host /\ raised' = "none"
                      THEN <<CONSUL_RETRY_INTERVAL>> ELSE <<>>
       /\ step' = "get_consul_host"
             => /\ consul.retries = <<0>>
                /\ consul' = [lookups |-> 1, retries |-> <<>>]
       /\ (Lookups(consul) = 1 /\ ~config'.host /\ raised' # "ValueError")
             => Lookups(consul') = 1
       /\ step' \in {"get_consul_host", "get_consul_host_resumed"}
             => /\ UNCHANGED <<routes, router_clients, statistics, clients,
                               connections, registrations, heartbeat_task>>
                /\ config'.ports = config.ports
                /\ dispatched' = <<>>
                /\ written' = NoWrites
      ]_vars

\* data of the driver is routed while a retry of the lookup is part-way
\* through its interval
C22_Witness ==
    /\ step = "got_data"
    /\ raised = "none"
    /\ ~config.host
    /\ Len(consul.retries) = 1
    /\ consul.retries[1] < CONSUL_RETRY_INTERVAL
    /\ written["ascii_logger"] # <<>>

\* C23: once a server's bind has completed (got_port_cb was called for it),
\* its port is in the configuration and its registration was issued, once.
C23_RegisteredOnce ==
    \A service \in Services :
       registrations[service].answer \notin {"none", "CannotListenError"}
          => /\ service \in config.ports
             /\ registrations[service].issued = 1

\* C26: once the reactor runs, and whenever an instrument connection is or
\* was reported, the target count is 1 in TcpPortAgent and RsnPortAgent and
\* 2 in BotptPortAgent, and no instrument_connected runs before main() has
\* reached reactor.run(): none sees the 0 of the base class.
C26_TargetCount ==
    /\ (main = <<>> \/ connections # {}
          \/ step \in {"instrument_connected", "instrument_disconnected"})
          => num_connections = IF agent_type = "botpt" THEN 2 ELSE 1
    /\ step \in {"instrument_connected", "instrument_disconnected"}
          => main = <<>>

C26_Witness ==
    /\ step = "instrument_connected"
    /\ agent_type = "botpt"
    /\ connections = {"rx", "tx"}
    /\ dispatched = Packet_create("CONNECTED", "PA_STATUS")

\* C27: a DIGI command asks for a connection of its own and writes nothing
\* yet; its command line is written, once, only to a connection that was
\* established, and the DIGI_CMD packet is returned and routed only in the
\* step that wrote; when the connection fails nothing is written, returned
\* or routed.
C27_DigiCommand ==
    /\ \A i \in 1..Len(digi) :
          digi[i].written = IF digi[i].protocol = "connected"
                            THEN <<digi[i].command>> ELSE <<>>
    /\ step = "_handle_digi_command"
          => /\ digi # <<>>
             /\ digi[Len(digi)].protocol = "connecting"
             /\ returned = <<>> /\ dispatched = <<>> /\ written = NoWrites
    /\ step = "_handle_digi_command_resumed"
          => IF raised = "ConnectError"
             THEN returned = <<>> /\ dispatched = <<>> /\ written = NoWrites
             ELSE /\ Len(returned) = 1
                  /\ returned[1].header.packet_type = "DIGI_CMD"
                  /\ dispatched = returned
                  /\ \E i \in 1..Len(digi) :
                        /\ digi[i].protocol = "connected"
                        /\ digi[i].written = <<returned[1].payload>>
    /\ \A k \in 1..Len(dispatched) :
          dispatched[k].header.packet_type = "DIGI_CMD"
             => step = "_handle_digi_command_resumed" /\ raised # "ConnectError"

C27_Witness ==
    /\ step = "_handle_digi_command_resumed"
    /\ raised = "none"
    /\ Len(digi) = 2
    /\ digi[1].protocol = "failed"
    /\ digi[2].protocol = "connected"
    /\ written["ascii_logger"] # <<>>

\* C24: without a channel nothing is handed to the queue, and the
\* statistics tick still returns normally, having printed and cleared the
\* counters; a lost connection and a failed attempt unset the channel, and
\* only get_channel sets it again.
C24_PublisherUnavailable ==
    [][/\ stats_publisher.channel = None => published' = <<>>
       /\ step' = "_log_stats"
             => /\ raised' = "none"
                /\ statistics' = NoStatistics
                /\ logged' = LogLines(statistics)
                /\ Len(published') =
                      IF /\ stats_publisher.channel # None
                         /\ statistics["CLIENT"] # NoCounts
                      THEN 1 ELSE 0
       /\ step' \in {"clientConnectionLost", "clientConnectionFailed"}
             => stats_publisher'.channel = None
       /\ (stats_publisher.channel = None /\ stats_publisher'.channel # None)
             => step' = "get_channel"
       /\ stats_publisher'.channel # None => stats_publisher'.link = "connected"
      ]_vars

C24_Witness ==
    /\ step = "_log_stats"
    /\ stats_publisher = [channel |-> None, link |-> "connected"]
    /\ "CLIENT" \in DOMAIN logged
    /\ logged["CLIENT"].BYTES_OUT > 0
    /\ published = <<>>

PayloadsOf(packets) == [i \in 1..Len(packets) |-> Render(packets[i], "RAW")]

\* C25: the packets read from the instrument connection (RX in the BOTPT
\* agent) are written to every connected client, and the packets read from
\* a client are written to the instrument connection (TX in the BOTPT
\* agent) and never to RX.
C25_DataDirection ==
    (step = "got_data" /\ dispatched # <<>>)
       => /\ dispatched[1].header.packet_type = "FROM_INSTRUMENT"
               => \A c \in router_clients["CLIENT"] :
                     written[c] = PacketsOf(dispatched)
          /\ dispatched[1].header.packet_type = "FROM_DRIVER"
               => /\ \A c \in router_clients["INSTRUMENT"] :
                        written[c] = PayloadsOf(dispatched)
                  /\ written["rx"] = <<>>

\* C28: a step of the OrbThread leaves the routes, the registry, the
\* statistics and the calls of got_data in progress alone and writes
\* nothing; what it reaps waits in the reactor's queue in the order of the
\* reaps, the reactor thread takes it from there in that order, and got_data
\* is only ever run by the reactor thread, one call at a time.
C28_OrbInjection ==
    [][/\ step' = "OrbThread.run"
             => /\ UNCHANGED <<routes, router_clients, statistics, dispatching>>
                /\ dispatched' = <<>>
                /\ written' = NoWrites
       /\ Len(dispatching') <= 1
       /\ \A i \in 1..Len(dispatching') : dispatching'[i].thread = "reactor"
       /\ \A j \in 1..Len(orb'.calls) :
             /\ orb'.calls[j].n = orb'.injected + j
             /\ \A k \in 1..Len(orb'.calls[j].packets) :
                   orb'.calls[j].packets[k].payload = PayloadOf(orb'.calls[j].n)
       /\ Len(orb'.calls) = orb'.reaped - orb'.injected
       /\ step' = "runUntilCurrent"
             => /\ orb'.injected = orb.injected + 1
                /\ dispatching = <<>>
                /\ dispatching'[1].packets = orb.calls[1].packets
       /\ step' = "got_data"
             => /\ dispatching # <<>>
                /\ dispatched' = <<dispatching[1].packets[1]>>
      ]_vars

C28_Witness ==
    /\ step = "got_data"
    /\ orb.injected = 2
    /\ dispatched # <<>>
    /\ dispatched[1].payload = PayloadOf(2)
    /\ written["driver"] # <<>>

\* C29: while a call of got_data is in progress neither the registry nor
\* the route table changes; a step that changes the registry changes it by
\* one connection, between two calls; and a packet is written only to
\* connections that are registered before and after its fan-out.
C29_RegistryAtomic ==
    [][/\ dispatching # <<>>
             => router_clients' = router_clients /\ routes' = routes
       /\ router_clients' # router_clients
             => /\ dispatching' = <<>>
                /\ \E c \in Connections :
                      \/ router_clients' = [router_clients EXCEPT
                                               ![EndpointOf(c)] = @ \cup {c}]
                      \/ router_clients' = [router_clients EXCEPT
                                               ![EndpointOf(c)] = @ \ {c}]
       /\ step' = "got_data"
             => \A c \in Connections :
                   written'[c] # <<>>
                      => /\ c \in router_clients[EndpointOf(c)]
                         /\ c \in router_clients'[EndpointOf(c)]
      ]_vars

C29_Witness ==
    /\ step = "client_disconnected"
    /\ orb.injected = 1
    /\ orb.calls # <<>>
    /\ dispatching = <<>>
    /\ router_clients["CLIENT"] = {}

\* the text of a number below 100 in two digits
TwoDigits ==
    <<"01", "02", "03", "04", "05", "06", "07", "08", "09", "10", "11", "12",
      "13", "14", "15", "16", "17", "18", "19", "20", "21", "22", "23", "24",
      "25", "26", "27", "28", "29", "30", "31">>

YearText == [year \in {1970, 2016} |-> IF year = 1970 THEN "1970" ELSE "2016"]

\* C30: for the last-write date (Y, M, D) get_archive returns the name
\* '<name>.<Y>_<MM>_<DD>' and the directory '<archive_dir>/<Y>/<MM>', month
\* and day in two digits.
C30_GetArchive ==
    step = "get_archive"
       => LET Y == YearText[logfile.lastDate[1]]
              MM == TwoDigits[logfile.lastDate[2]]
              DD == TwoDigits[logfile.lastDate[3]]
          IN  /\ returned[1] = logfile.name \o "." \o Y \o "_" \o MM \o "_" \o DD
              /\ returned[2] = logfile.archive_dir \o "/" \o Y \o "/" \o MM

C30_Witness ==
    /\ step = "get_archive"
    /\ logfile.name = "test"
    /\ logfile.archive_dir = "archivedir"
    /\ logfile.lastDate = <<2016, 1, 1>>
    /\ returned = <<"test.2016_01_01", "archivedir/2016/01">>

\* the suffix of each of the times of UnixTimes, as time.gmtime gives its
\* date
SuffixOfTime ==
    [t \in UnixTimes |->
        CASE t \in {0, 86399} -> "1970_01_01"
          [] t = 86400 -> "1970_01_02"
          [] t = 5097600 -> "1970_03_01"
          [] t = 68255999 -> "1972_02_29"
          [] t = 951782400 -> "2000_02_29"
          [] t = 1451606399 -> "2015_12_31"
          [] t \in {1451606400} -> "2016_01_01"
          [] t = 1456704000 -> "2016_02_29"
          [] t = 1456790400 -> "2016_03_01"
          [] t = 1483228799 -> "2016_12_31"]

C32_RotateSilent ==
    [][LET path == os_path_join(logfile.directory, logfile.name)
           newdirectory == get_archive(logfile)[2]
           newpath == os_path_join(newdirectory, get_archive(logfile)[1])
       IN  (/\ step' = "rotate"
            /\ \/ logfile.directory \notin logfile.writable
               \/ path \notin logfile.writable
               \/ newdirectory \in logfile.exists /\ newdirectory \notin logfile.writable
               \/ newdirectory \notin logfile.exists /\ ~logfile.creatable
               \/ newpath \in logfile.exists)
           => /\ raised' = "none"
              /\ logfile'.closed = logfile.closed
              /\ logfile'.lastDate = logfile.lastDate]_vars

\* C33: _file_retrieved renames the downloaded file from its '.part'
\* name, records it in retrieved_files and routes a FROM_INSTRUMENT packet
\* when the size of the file on disk equals the size of the listing, and
\* only then: otherwise no '.part' file is left, retrieved_files is
\* unchanged and no packet is routed.
C33_FileRetrieved ==
    [][step' = "_file_retrieved" =>
          LET line == ftp.files[ftp.index]
              fileobject == [directory |-> FILE_NAME_MATCHER(line.filename),
                             name |-> line.filename, part |-> FALSE, size |-> line.size]
          IN  /\ \A file \in ftp'.local : ~file.part
              /\ IF ftp'.received = line.size
                 THEN /\ fileobject \in ftp'.local
                      /\ ftp'.retrieved_files = ftp.retrieved_files \cup {line.filename}
                      /\ Len(dispatched') = 1
                      /\ dispatched'[1].header.packet_type = "FROM_INSTRUMENT"
                 ELSE /\ ftp'.local = ftp.local
                      /\ ftp'.retrieved_files = ftp.retrieved_files
                      /\ dispatched' = <<>>]_vars

\* a file came whole and the driver was told
C33_Witness ==
    /\ step = "_file_retrieved"
    /\ ftp.received = 2
    /\ ListedFiles[3].filename \in ftp.retrieved_files
    /\ Len(dispatched) = 1
    /\ written["driver"] # <<>>

\* the files of the listing that a pass has to download: those that were
\* not retrieved before the pass, do not end in '.bot' or '.idx' and match
\* the name pattern
NewFiles ==
    SelectSeq(ftp.files,
              LAMBDA line : /\ line.filename \notin ftp.before
                            /\ line.filename.ext \notin {".bot", ".idx"}
                            /\ FILE_NAME_MATCHER(line.filename) # <<>>)

\* C34: a pass of _retrieve_files starts a download for new files of the
\* listing and for no others, one at a time in the order of the listing;
\* a failure on one file does not keep the pass from the files after it:
\* when the pass has ended, a download was started for every new file but,
\* at most, the one file something failed on before its download started.
C34_RetrieveFiles ==
    /\ Len(ftp.downloads) <= Len(NewFiles)
    /\ \A i \in 1..Len(ftp.downloads) : ftp.downloads[i] = NewFiles[i].filename
    /\ ftp.pc = "callLater" => Len(NewFiles) - Len(ftp.downloads) <= 1

\* C35: no DISCONNECTED status packet is emitted while the live instrument
\* set has the target size: when notify_disconnected runs, the live set is
\* below the target.
C35_DisconnectedBelowTarget ==
    (step = "notify_disconnected" \/ Emitted("DISCONNECTED"))
        => Live < num_connections

\* the forgiveness call ran with the instrument still away
C35_Witness ==
    /\ step = "notify_disconnected"
    /\ Emitted("DISCONNECTED")
    /\ agent_type = "botpt"
    /\ Live = 1

\* C36: with the default route table no packet goes back to the side it
\* came from: a FROM_DRIVER packet is written to no connection of endpoint
\* type CLIENT, a FROM_INSTRUMENT packet to none of type INSTRUMENT, and a
\* PA_COMMAND packet only to connections of the types COMMAND_HANDLER,
\* LOGGER and DATALOGGER.
C36_NoEcho ==
    (step = "got_data" /\ dispatched # <<>>) =>
        \A c \in Connections : \A e \in EndpointType :
            (written[c] # <<>> /\ c \in router_clients[e]) =>
                LET packet_type == dispatched[1].header.packet_type
                IN  /\ packet_type = "FROM_DRIVER" => e # "CLIENT"
                    /\ packet_type = "FROM_INSTRUMENT" => e # "INSTRUMENT"
                    /\ packet_type = "PA_COMMAND"
                          => e \in {"COMMAND_HANDLER", "LOGGER", "DATALOGGER"}

\* a command packet reached the command handler and the loggers while a
\* driver and an instrument were connected
C36_Witness ==
    /\ step = "got_data"
    /\ dispatched # <<>>
    /\ dispatched[1].header.packet_type = "PA_COMMAND"
    /\ "driver" \in router_clients["CLIENT"]
    /\ "inst" \in router_clients["INSTRUMENT"]
    /\ "sniffer" \in router_clients["COMMAND_HANDLER"]
    /\ written["sniffer"] # <<>>
    /\ written["data_logger"] # <<>>
    /\ written["driver"] = <<>>

ChainLinks ==
    {i \in 1..Len(camds.calls) :
        camds.calls[i].name \in {"list_dirs", "fetch_file", "retrieveFile"}}

\* C38: in one authenticated session at most one download is in flight,
\* a download starts only in fetch_file, when no other is in flight, and
\* the chain of list_dirs and fetch_file is never there twice.
C38_SingleChain ==
    /\ Cardinality(ChainLinks) <= 1
    /\ Cardinality({i \in 1..Len(camds.calls) : camds.calls[i].name = "retrieveFile"}) <= 1
    /\ (\E i \in 1..Len(camds.calls) : camds.calls[i].name = "retrieveFile")
          => step \in {"fetch_file", "list_files"}

\* a download is in flight, started by fetch_file after an earlier one
\* had completed
C38_Witness ==
    /\ step = "fetch_file"
    /\ \E i \in 1..Len(camds.calls) : camds.calls[i].name = "retrieveFile"
    /\ camds.retrieved_file_queue # <<>>

\* C39: filesListed queues no file twice: no name is pending twice, and no
\* file that was retrieved (and is in the history of retrieved files) is
\* pending or downloaded again.
C39_QueuedOnce ==
    LET pending == camds.pending_file_queue
        retrieved == camds.retrieved_file_queue
    IN  /\ \A i, j \in 1..Len(pending) : pending[i] = pending[j] => i = j
        /\ \A i \in 1..Len(pending) : \A k \in 1..Len(retrieved) :
              pending[i].filename # retrieved[k].filename
        /\ \A i, j \in 1..Len(retrieved) : retrieved[i] = retrieved[j] => i = j

\* C40: after any sequence of orbstart and orbstop there is at most one
\* OrbThread, and the reader is acquiring (keep_going is true and the
\* thread is running) if and only if the last command was orbstart;
\* orbstart after orbstop resumes the acquisition.
C40_AcquisitionControl ==
    LET acquiring == orb.keep_going /\ orb.pc \in {"while", "reap"}
    IN  /\ orb.orb_thread \in {None, 1}
        /\ step = "_orb_start" => acquiring
        /\ step = "_orb_stop" => ~acquiring

====
